---- MODULE Spec2Model ----
(***************************************************************************)
(* Asynchronous combinators of seastar/core/future-util.hh as state        *)
(* machines.  One combinator is exercised per behaviour (comb, chosen by   *)
(* Init); the records of the other combinators stay at their idle value.   *)
(*                                                                         *)
(* Collaborator conventions (future.hh, task.hh, timer.hh):                *)
(*   - a future is "pending", or ready with a value or with an exception;  *)
(*   - completing a future on which a continuation is installed schedules  *)
(*     that continuation as a task; the task runs later, alone;            *)
(*   - an exception is identified by the number of the invocation (or of   *)
(*     the element) that produced it, so that its origin can be checked.   *)
(***************************************************************************)
EXTENDS Integers, Sequences, FiniteSets, TLC

\* ------------------------------------------------------------------ bounds
MaxElems == 3      \* longest range handed to parallel_for_each or when_all
MaxMapped == 2     \* longest range handed to map_reduce
MaxCalls == 3      \* invocations of a loop's action that are followed
MaxFuncs == 2      \* most arguments of a when_all call that has callables
MaxOther == 2      \* unrelated tasks the reactor runs beside a loop

NoEx == 0          \* "no exception captured" (an empty optional<exception_ptr>)

VARIABLES comb,    \* the combinator this behaviour exercises
          pfe,     \* parallel_for_each: the call's locals and its heap state
          wt,      \* with_timeout: input, output, timer and continuation
          lp,      \* the sequential loops: repeat, repeat_until_value,
                   \* do_until, keep_doing, do_for_each
          wa,      \* when_all / when_all_succeed, tuple and iterator forms
          mr,      \* map_reduce, with a reducer object or an initial value
          sg       \* with_scheduling_group

vars == <<comb, pfe, wt, lp, wa, mr, sg>>
NotPfe == <<comb, wt, lp, wa, mr, sg>>
NotWt == <<comb, pfe, lp, wa, mr, sg>>
NotLp == <<comb, pfe, wt, wa, mr, sg>>
NotWa == <<comb, pfe, wt, lp, mr, sg>>
NotMr == <<comb, pfe, wt, lp, wa, sg>>
NotSg == <<comb, pfe, wt, lp, wa, mr>>

Last(s) == s[Len(s)]
Front(s) == SubSeq(s, 1, Len(s) - 1)

\* ------------------------------------------------------- parallel_for_each
Elems == 1..MaxElems

\* What one invocation of func can hand back through futurize_apply: a ready
\* future, a failed one (func threw, or returned a failed future), or a
\* future that is not available yet.
FutureOutcomes == {"ok", "exc", "pending"}

\* parallel_for_each at rest.
\*   found    the invocations whose future was found available, by the loop
\*            or by wait_for_one, in the order they were looked at
\*   installs the invocations on whose future the state was installed
\*   ran      the invocations whose future woke the state up
\*   driven   the invocations whose future wait_for_one took from _incomplete
\*   obs      the failed invocations, in the order their exception was stored
PfeIdle ==
    [pc |-> "idle", n |-> 0, i |-> 1,
     fut |-> [e \in Elems |-> "none"],
     calls |-> <<>>,
     s |-> FALSE, incomplete |-> <<>>, ex |-> NoEx, s_ex |-> NoEx,
     cb |-> 0, state |-> "none", queued |-> FALSE,
     result |-> "none", result_ex |-> NoEx, sets |-> 0, deleted |-> 0,
     late |-> FALSE, taken |-> {}, pend |-> {},
     found |-> <<>>, installs |-> <<>>, ran |-> <<>>, driven |-> <<>>,
     obs |-> <<>>]

\* with_timeout at rest.  out_by tells whose result the output holds: the
\* input's ("input") or that of the exception factory (its name).
WtIdle ==
    [pc |-> "idle", inp |-> "none", inp_val |-> 0, deadline |-> 0, now |-> 0,
     factory |-> "timed_out_error",
     out |-> "none", out_val |-> 0, out_by |-> "none", sets |-> 0,
     guard |-> FALSE, armed |-> FALSE, cb |-> FALSE, queued |-> FALSE,
     fired |-> FALSE, cancelled |-> FALSE, ignored |-> FALSE,
     when |-> "never"]

\* A sequential loop at rest.
\*   pc       "sync": inside the combinator's own call; "run": inside its
\*            heap state's run_and_dispose; "waiting": the state is the
\*            continuation of a pending action future; "queued": the state
\*            is in the task queue; "done": the loop is over
\*   state    the result slot (_state) the heap state wakes up with
\*   outs     the outcome of every invocation, in order
\*   epoch    counts the tasks started since the call; call_epoch[k] is the
\*            task invocation k ran in
\*   trips    the invocations after which need_preempt() returned true
\*   susp     the invocations whose future was not available
\*   log      do_until: the stop checks and the invocations, in order
\*   seen     do_for_each: the positions of the elements the action was
\*            invoked on, in order
LpIdle ==
    [pc |-> "idle", n |-> 0, pos |-> 1,
     returned |-> FALSE, heap |-> FALSE, state |-> "none", state_val |-> 0,
     calls |-> 0, outs |-> <<>>, call_epoch |-> <<>>, log |-> <<>>,
     seen |-> <<>>,
     result |-> "none", result_val |-> 0, sets |-> 0,
     np |-> 0, trips |-> {}, susp |-> {}, epoch |-> 0, others |-> 0]

\* when_all at rest.
\*   fut      the result each sub-future's promise has been given
\*   slot     what the state's tuple (or vector) holds for each position:
\*            the future as handed in ("linked": it has the state of fut),
\*            a future whose state went to a continuation ("detached"), or
\*            the ready future a continuation wrote back ("ok" / "exc")
\*   shape    the type of the future in each position: future<> ("void"),
\*            future<T> ("single") or future<T1, T2> ("multi")
\*   origin   the sub-future whose result each position holds (0: none,
\*            its state is with a continuation)
\*   cont     the position the one continuation is installed on (0: none)
\*   cont_of  the sub-future whose result the scheduled continuation carries
\*   out      the futures in the resolved output, by position, and
\*   out_origin  the sub-futures their results come from
\*   result_val  when_all_succeed: the values in the resolved output
\*   observed, ignored  the sub-futures whose exception the transform took
\*            out, and those it called ignore_ready_future() on
\*   got      the sub-futures whose value the transform took out with get()
\*   late     the sub-futures completed after the call
\*   driven   tuple form: the positions process_one was called for, in order
\*   found    the positions the state found available, in the order it
\*            looked at them
\*   installs the positions a continuation was constructed for
\*   ran      the positions whose continuation ran and was destroyed
\*   kind     variadic forms: what each argument is, a future ("future") or a
\*            callable ("func"); before the call fut holds what the callable
\*            will do ("throw": it throws)
\*   invoked  the callables invoked, in the order of their invocation
\*   threw    the callables that threw
WaIdle ==
    [pc |-> "idle", n |-> 0,
     fut |-> [e \in Elems |-> "none"], slot |-> [e \in Elems |-> "none"],
     shape |-> [e \in Elems |-> "none"], origin |-> [e \in Elems |-> 0],
     nr_remain |-> 0, pos |-> 1,
     cont |-> 0, cont_state |-> "none", cont_of |-> 0, queued |-> FALSE,
     heap |-> FALSE, deleted |-> 0,
     result |-> "none", result_ex |-> NoEx, out |-> <<>>,
     out_origin |-> <<>>, result_val |-> <<>>,
     observed |-> {}, ignored |-> {}, late |-> {}, sets |-> 0,
     found |-> <<>>, installs |-> <<>>, ran |-> <<>>,
     kind |-> [e \in Elems |-> "none"], invoked |-> <<>>, threw |-> {},
     driven |-> <<>>, got |-> {}]

\* map_reduce at rest.
\*   m        the state of the future the mapper returned for each element
\*   st       where the chain link of each element is: "wait_m" (the outer
\*            continuation waits for the mapper's future), "l1_queued" (it is
\*            scheduled), "wait_ret" (the inner continuation waits for the
\*            previous ret), "l2_queued" (it is scheduled), "follow" (ret is
\*            the previous ret), "reducing" (the reducer's future is
\*            pending), "done" (ret is resolved)
\*   ret      the state of the ret the loop built for each element
\*   acc      the elements folded so far, in the order they were folded
\*   q        the scheduled continuations, oldest first: an element stands
\*            for the continuation of its link, 0 for the final one
\*   mapped   the elements the mapper was called on, in call order
\*   folds    the elements the reducer / reduce was called on, in call order
\*   red      what each of those calls gave
\*   observed the elements whose mapper future had its result taken (get)
\*   ignored  the elements whose mapper future was ignore_ready_future()d
\*   ret_ignored  the rets the catch handler ignore_ready_future()d
\*   shared   the lw_shared reducer / fold state is allocated
\*   pend     the elements whose mapper or reducer future was not available
\*            when it was returned
\*   np_at    the first check at which need_preempt() was true during the call
\*   fin      where the final continuation on the last ret is
Mapped == 1..MaxMapped
MrIdle ==
    [pc |-> "idle", n |-> 0,
     m |-> [e \in Mapped |-> "none"], st |-> [e \in Mapped |-> "none"],
     ret |-> [e \in Mapped |-> "none"], ret_ex |-> [e \in Mapped |-> NoEx],
     acc |-> <<>>, ignored |-> {}, fin |-> "none",
     mapped |-> <<>>, folds |-> <<>>, red |-> [e \in Mapped |-> "none"],
     observed |-> {}, ret_ignored |-> {}, shared |-> FALSE, q |-> <<>>,
     pend |-> {}, np_at |-> 0,
     result |-> "none", result_ex |-> NoEx, result_val |-> <<>>, sets |-> 0]

\* with_scheduling_group at rest.
\*   inner    the state of the future func returned ("none": not called)
\*   ran_in   where func was called from: the caller or the queued task
\*   calls    how many times func was called
\*   task_sg  the group the queued task was handed to schedule_in_group with
\*   inner_val, result_val  the value of func's future and of the output
SgIdle ==
    [pc |-> "idle", active |-> FALSE, queued |-> FALSE,
     inner |-> "none", ran_in |-> "none", linked |-> FALSE,
     calls |-> 0, task_sg |-> "none", inner_val |-> 0, result_val |-> 0,
     result |-> "none", sets |-> 0]

PfeInit(n) == [PfeIdle EXCEPT !.pc = "loop", !.n = n]

\* promise<>::set_value / set_exception on _result, and the two ready futures
\* parallel_for_each returns without a state.
PfeSetResult(p, st, e) ==
    [p EXCEPT !.result = st, !.result_ex = e, !.sets = @ + 1]

\* The while loop of wait_for_one: pop the futures at the back that are
\* available, keeping the exception of each failed one.
RECURSIVE SkipAvailable(_, _, _)
SkipAvailable(inc, e, fut) ==
    IF inc # <<>> /\ fut[Last(inc)] # "pending"
    THEN SkipAvailable(Front(inc),
                       IF fut[Last(inc)] = "exc" THEN Last(inc) ELSE e,
                       fut)
    ELSE <<inc, e>>

\* The futures that loop pops, in the order it pops them.
Skipped(inc, rest) ==
    [k \in 1..(Len(inc) - Len(rest)) |-> inc[Len(inc) + 1 - k]]

\* The failed futures that loop pops: get_exception() is called on each.
SkippedFailed(inc, rest, fut) ==
    {inc[k] : k \in {j \in (Len(rest) + 1)..Len(inc) : fut[inc[j]] = "exc"}}

\* A short-circuiting wait_for_one: reports as soon as an exception is held.
wait_for_one_short_circuit(p) ==
    LET r == SkipAvailable(p.incomplete, p.s_ex, p.fut)
        q == [p EXCEPT !.incomplete = r[1], !.s_ex = r[2]]
    IN  IF r[1] # <<>> /\ r[2] = NoEx
        THEN [q EXCEPT !.cb = Last(r[1]), !.incomplete = Front(r[1])]
        ELSE [PfeSetResult(q, IF r[2] # NoEx THEN "exc" ELSE "ok", r[2])
                EXCEPT !.s = FALSE, !.deleted = @ + 1]

\* A wait_for_one whose add_exception keeps an exception that is already
\* held.
wait_for_one_keeps_first(p) ==
    LET r == SkipAvailable(p.incomplete, p.s_ex, p.fut)
        q == [p EXCEPT !.incomplete = r[1],
                       !.s_ex = IF p.s_ex # NoEx THEN p.s_ex ELSE r[2],
                       !.taken = @ \cup SkippedFailed(p.incomplete, r[1],
                                                      p.fut),
                       !.found = @ \o Skipped(p.incomplete, r[1]),
                       !.driven = @ \o Skipped(p.incomplete, r[1]),
                       !.obs = @ \o SelectSeq(Skipped(p.incomplete, r[1]),
                                              LAMBDA e : p.fut[e] = "exc")]
    IN  IF r[1] # <<>>
        THEN [q EXCEPT !.cb = Last(r[1]), !.incomplete = Front(r[1]),
                       !.driven = Append(@, Last(r[1])),
                       !.installs = Append(@, Last(r[1]))]
        ELSE [PfeSetResult(q, IF q.s_ex # NoEx THEN "exc" ELSE "ok", q.s_ex)
                EXCEPT !.s = FALSE, !.deleted = @ + 1]

\* parallel_for_each_state::wait_for_one
wait_for_one(p) ==
    LET r == SkipAvailable(p.incomplete, p.s_ex, p.fut)
        q == [p EXCEPT !.incomplete = r[1], !.s_ex = r[2],
                       !.taken = @ \cup SkippedFailed(p.incomplete, r[1],
                                                      p.fut),
                       !.found = @ \o Skipped(p.incomplete, r[1]),
                       !.driven = @ \o Skipped(p.incomplete, r[1]),
                       !.obs = @ \o SelectSeq(Skipped(p.incomplete, r[1]),
                                              LAMBDA e : p.fut[e] = "exc")]
    IN  IF r[1] # <<>>
        THEN \* set_callback(_incomplete.back(), this); _incomplete.pop_back()
             [q EXCEPT !.cb = Last(r[1]), !.incomplete = Front(r[1]),
                       !.driven = Append(@, Last(r[1])),
                       !.installs = Append(@, Last(r[1]))]
        ELSE \* everything completed: report, delete this
             [PfeSetResult(q, IF r[2] # NoEx THEN "exc" ELSE "ok", r[2])
                EXCEPT !.s = FALSE, !.deleted = @ + 1]

\* A run_and_dispose that does not look at the result it was woken with.
pfe_run_and_dispose_drops_exception(p) ==
    wait_for_one([p EXCEPT !.ran = Append(@, p.cb),
                           !.state = "none", !.cb = 0, !.queued = FALSE])

\* parallel_for_each_state::run_and_dispose: the state runs as the
\* continuation of future cb, whose result is in _state.
pfe_run_and_dispose(p) ==
    wait_for_one([p EXCEPT !.s_ex = IF p.state = "exc" THEN p.cb ELSE @,
                           !.obs = IF p.state = "exc" THEN Append(@, p.cb)
                                                      ELSE @,
                           !.ran = Append(@, p.cb),
                           !.taken = IF p.state = "exc" THEN @ \cup {p.cb}
                                                        ELSE @,
                           !.state = "none", !.cb = 0, !.queued = FALSE])

\* A loop body that stops walking the range at the first failed invocation.
pfe_loop_body_stop_on_failure(p, o) ==
    LET q == [p EXCEPT !.fut[p.i] = o, !.calls = Append(@, p.i)]
    IN  IF o = "pending"
        THEN [q EXCEPT !.i = @ + 1, !.s = TRUE, !.incomplete = Append(@, p.i)]
        ELSE IF o = "exc" THEN [q EXCEPT !.i = p.n + 1, !.ex = p.i]
        ELSE [q EXCEPT !.i = @ + 1]

\* A loop body that hands every future that is not a plain success to the
\* state, a failed one included.
pfe_loop_body_collects_failed(p, o) ==
    LET q == [p EXCEPT !.fut[p.i] = o, !.calls = Append(@, p.i), !.i = @ + 1]
    IN  IF o = "pending"
        THEN [q EXCEPT !.s = TRUE, !.incomplete = Append(@, p.i),
                       !.pend = @ \cup {p.i}]
        ELSE IF o = "exc"
             THEN [q EXCEPT !.s = TRUE, !.incomplete = Append(@, p.i)]
             ELSE q

\* One iteration of parallel_for_each's while loop: invoke func on *begin++
\* and sort the future it returns.
pfe_loop_body(p, o) ==
    LET q == [p EXCEPT !.fut[p.i] = o, !.calls = Append(@, p.i), !.i = @ + 1]
    IN  IF o = "pending"
        THEN [q EXCEPT !.s = TRUE, !.incomplete = Append(@, p.i),
                       !.pend = @ \cup {p.i}]
        ELSE IF o = "exc" THEN [q EXCEPT !.ex = p.i, !.taken = @ \cup {p.i},
                                         !.found = Append(@, p.i),
                                         !.obs = Append(@, p.i)]
        ELSE [q EXCEPT !.found = Append(@, p.i)]

\* A hand-off that forgets the exception collected by the loop.
pfe_finish_drop_ex(p) ==
    IF p.s
    THEN wait_for_one([p EXCEPT !.pc = "returned", !.result = "pending"])
    ELSE PfeSetResult([p EXCEPT !.pc = "returned"],
                      IF p.ex # NoEx THEN "exc" ELSE "ok", p.ex)

\* The end of parallel_for_each: hand off to the state, or return a ready
\* future.
pfe_finish(p) ==
    IF p.s
    THEN wait_for_one([p EXCEPT !.pc = "returned", !.result = "pending",
                                !.s_ex = IF p.ex # NoEx THEN p.ex ELSE @])
    ELSE PfeSetResult([p EXCEPT !.pc = "returned"],
                      IF p.ex # NoEx THEN "exc" ELSE "ok", p.ex)

\* A sub-future is completed by whoever holds its promise.  When the state is
\* installed on it, the state is scheduled with the result in _state.
\* (late: a sub-future completed while a failure was already held.)
pfe_complete(p, e, o) ==
    LET q == [p EXCEPT !.fut[e] = o,
                       !.late = @ \/ p.ex # NoEx \/ p.s_ex # NoEx]
    IN  IF p.cb = e THEN [q EXCEPT !.state = o, !.queued = TRUE] ELSE q

PfeInvoke ==
    /\ comb = "parallel_for_each"
    /\ pfe.pc = "loop" /\ pfe.i <= pfe.n
    /\ \E o \in FutureOutcomes : pfe' = pfe_loop_body(pfe, o)
    /\ UNCHANGED NotPfe

PfeFinish ==
    /\ comb = "parallel_for_each"
    /\ pfe.pc = "loop" /\ pfe.i > pfe.n
    /\ pfe' = pfe_finish(pfe)
    /\ UNCHANGED NotPfe

PfeComplete ==
    /\ comb = "parallel_for_each"
    /\ \E e \in Elems, o \in {"ok", "exc"} :
          /\ pfe.fut[e] = "pending"
          /\ pfe' = pfe_complete(pfe, e, o)
    /\ UNCHANGED NotPfe

PfeRunAndDispose ==
    /\ comb = "parallel_for_each"
    /\ pfe.queued
    /\ pfe' = pfe_run_and_dispose(pfe)
    /\ UNCHANGED NotPfe

InitPfe ==
    /\ comb = "parallel_for_each"
    /\ \E n \in 0..MaxElems : pfe = PfeInit(n)
    /\ wt = WtIdle /\ lp = LpIdle /\ wa = WaIdle /\ mr = MrIdle /\ sg = SgIdle

NextPfe == PfeInvoke \/ PfeFinish \/ PfeComplete \/ PfeRunAndDispose

SpecPfe == InitPfe /\ [][NextPfe]_vars

\* ------------------------------------------------------------ with_timeout
MaxTime == 2       \* the manual clock runs from 0 to MaxTime
MaxValue == 2      \* values (and exceptions) an input future can carry

Values == 1..MaxValue
ExceptionFactories == {"timed_out_error", "custom_error"}

WtSetOut(w, st, v, by) ==
    [w EXCEPT !.out = st, !.out_val = v, !.out_by = by, !.sets = @ + 1]

\* A with_timeout that sets up the promise and the timer even when the input
\* is available.
with_timeout_always_arms(w) ==
    [w EXCEPT !.pc = "returned", !.out = "pending", !.guard = TRUE,
              !.armed = TRUE, !.cb = TRUE, !.queued = w.inp # "pending"]

\* A with_timeout that looks at the deadline before it looks at the input.
with_timeout_checks_deadline(w) ==
    IF w.deadline <= w.now
    THEN WtSetOut([w EXCEPT !.pc = "returned"], "exc", 0, w.factory)
    ELSE IF w.inp # "pending"
    THEN WtSetOut([w EXCEPT !.pc = "returned"], w.inp, w.inp_val, "input")
    ELSE [w EXCEPT !.pc = "returned", !.out = "pending", !.guard = TRUE,
                   !.armed = TRUE, !.cb = TRUE]

\* with_timeout(timeout, f)
with_timeout(w) ==
    IF w.inp # "pending"
    THEN \* f.available(): return f
         WtSetOut([w EXCEPT !.pc = "returned"], w.inp, w.inp_val, "input")
    ELSE \* pr, timer.arm(timeout), f.then_wrapped(...), return result
         [w EXCEPT !.pc = "returned", !.out = "pending", !.guard = TRUE,
                   !.armed = TRUE, !.cb = TRUE]

\* A timer callback that, having set the exception, also gives up the
\* promise.
wt_timer_callback_releases(w) ==
    [WtSetOut(w, "exc", 0, w.factory)
        EXCEPT !.armed = FALSE, !.fired = TRUE, !.guard = FALSE]

\* The timer's callback: pr.set_exception(ExceptionFactory::timeout())
wt_timer_callback(w) ==
    [WtSetOut(w, "exc", 0, w.factory) EXCEPT !.armed = FALSE, !.fired = TRUE]

\* A continuation that forwards the input without asking the timer.
wt_continuation_always_forwards(w) ==
    [WtSetOut(w, w.inp, w.inp_val, "input")
        EXCEPT !.armed = FALSE, !.cancelled = w.armed,
               !.guard = FALSE, !.cb = FALSE, !.queued = FALSE]

\* A continuation that forwards the input and leaves the timer armed.
wt_continuation_keeps_timer(w) ==
    IF w.armed
    THEN [WtSetOut(w, w.inp, w.inp_val, "input")
            EXCEPT !.cancelled = TRUE, !.cb = FALSE, !.queued = FALSE]
    ELSE [w EXCEPT !.ignored = TRUE,
                   !.guard = FALSE, !.cb = FALSE, !.queued = FALSE]

\* The continuation attached to the input future; it owns pr and the timer
\* and destroys both when it has run.
wt_continuation(w) ==
    IF w.armed
    THEN \* timer.cancel() succeeded: f.forward_to(std::move(*pr))
         [WtSetOut(w, w.inp, w.inp_val, "input")
            EXCEPT !.armed = FALSE, !.cancelled = TRUE,
                   !.guard = FALSE, !.cb = FALSE, !.queued = FALSE]
    ELSE \* the timer has fired: f.ignore_ready_future()
         [w EXCEPT !.ignored = TRUE,
                   !.guard = FALSE, !.cb = FALSE, !.queued = FALSE]

\* The input's promise is set (pr.set_value / set_exception in the caller);
\* the continuation, when installed, is scheduled.
\* (when: what the timer had done when the input completed.)
wt_input_completes(w, st, v) ==
    [w EXCEPT !.inp = st, !.inp_val = v, !.queued = w.cb,
              !.when = IF w.fired THEN "fired" ELSE "armed"]

WithTimeout ==
    /\ comb = "with_timeout"
    /\ wt.pc = "init"
    /\ wt' = with_timeout(wt)
    /\ UNCHANGED NotWt

WtInputCompletes ==
    /\ comb = "with_timeout"
    /\ wt.pc = "returned" /\ wt.inp = "pending"
    /\ \E st \in {"val", "exc"}, v \in Values :
          wt' = wt_input_completes(wt, st, v)
    /\ UNCHANGED NotWt

\* manual_clock::advance
WtAdvance ==
    /\ comb = "with_timeout"
    /\ wt.pc = "returned" /\ wt.now < MaxTime
    /\ wt' = [wt EXCEPT !.now = @ + 1]
    /\ UNCHANGED NotWt

WtTimerCallback ==
    /\ comb = "with_timeout"
    /\ wt.armed /\ wt.now >= wt.deadline
    /\ wt' = wt_timer_callback(wt)
    /\ UNCHANGED NotWt

WtContinuation ==
    /\ comb = "with_timeout"
    /\ wt.queued
    /\ wt' = wt_continuation(wt)
    /\ UNCHANGED NotWt

InitWt ==
    /\ comb = "with_timeout"
    /\ pfe = PfeIdle /\ lp = LpIdle /\ wa = WaIdle /\ mr = MrIdle /\ sg = SgIdle
    /\ \E st \in {"pending", "val", "exc"}, v \in Values,
          d \in 0..MaxTime, x \in ExceptionFactories :
          wt = [WtIdle EXCEPT !.pc = "init", !.inp = st,
                              !.inp_val = IF st = "pending" THEN 0 ELSE v,
                              !.when = IF st = "pending" THEN "never"
                                                         ELSE "before_call",
                              !.deadline = d, !.factory = x]

NextWt ==
    WithTimeout \/ WtInputCompletes \/ WtAdvance \/ WtTimerCallback
        \/ WtContinuation

SpecWt == InitWt /\ [][NextWt]_vars

\* -------------------------------------------------------- sequential loops
LoopKinds ==
    {"repeat", "keep_doing", "repeat_until_value", "do_until", "do_for_each"}

\* The action is invoked: invocation number l.calls + 1, with outcome o
\* ("throw": it threw; "exc": a failed future; "pending": a future that is
\* not available; "no" / "yes": a ready future that asks to go on / to stop).
LoopInvoke(l, o) ==
    [l EXCEPT !.calls = @ + 1, !.outs = Append(@, o),
              !.call_epoch = Append(@, l.epoch),
              !.log = Append(@, "action"),
              !.susp = IF o = "pending" THEN @ \cup {l.calls + 1} ELSE @]

\* The combinator's call returns a future that is already ready.
LoopReturn(l, st, v) ==
    [l EXCEPT !.pc = "done", !.returned = TRUE,
              !.result = st, !.result_val = v, !.sets = @ + 1]

\* The call escapes with an exception instead of returning a future.
LoopEscape(l, v) ==
    [l EXCEPT !.pc = "done", !.returned = TRUE,
              !.result = "thrown", !.result_val = v]

\* The call allocates the heap state, installs it on the pending action
\* future and returns the state's future.
LoopSuspend(l) ==
    [l EXCEPT !.pc = "waiting", !.returned = TRUE, !.heap = TRUE,
              !.result = "pending"]

\* The call allocates the heap state seeded with st, schedules it and
\* returns its future.
LoopSchedule(l, st) ==
    [l EXCEPT !.pc = "queued", !.returned = TRUE, !.heap = TRUE,
              !.state = st, !.result = "pending",
              !.trips = @ \cup {l.calls}]

\* The heap state sets its promise and is destroyed (zis goes out of scope).
LoopResolve(l, st, v) ==
    [l EXCEPT !.pc = "done", !.heap = FALSE, !.state = "none",
              !.state_val = 0,
              !.result = st, !.result_val = v, !.sets = @ + 1]

\* The heap state schedules itself with st in its result slot.
LoopReschedule(l, st) ==
    [l EXCEPT !.pc = "queued", !.state = st, !.trips = @ \cup {l.calls}]

NeedPreempt(l) == [l EXCEPT !.np = @ + 1]

\* A repeat() that goes round again without looking at f.available().
repeat_ignores_available(l, o, np) ==
    LET q == LoopInvoke(l, o)
        k == l.calls + 1
    IN  CASE o \in {"throw", "exc"} -> LoopReturn(q, "exc", k)
          [] o = "yes" -> LoopReturn(q, "ok", 0)
          [] OTHER -> IF np THEN LoopSchedule(NeedPreempt(q), "no")
                            ELSE NeedPreempt(q)

\* A repeat() whose loop never consults need_preempt().
repeat_never_preempts(l, o, np) ==
    LET q == LoopInvoke(l, o)
        k == l.calls + 1
    IN  CASE o = "pending" -> LoopSuspend(q)
          [] o \in {"throw", "exc"} -> LoopReturn(q, "exc", k)
          [] o = "yes" -> LoopReturn(q, "ok", 0)
          [] OTHER -> q

\* A repeat() that treats every ready result as "go on".
repeat_ignores_yes(l, o, np) ==
    LET q == LoopInvoke(l, o)
        k == l.calls + 1
    IN  CASE o = "pending" -> LoopSuspend(q)
          [] o \in {"throw", "exc"} -> LoopReturn(q, "exc", k)
          [] OTHER -> IF np THEN LoopSchedule(NeedPreempt(q), "no")
                            ELSE NeedPreempt(q)

\* One pass of the do-while of repeat(), with its exits.
repeat(l, o, np) ==
    LET q == LoopInvoke(l, o)
        k == l.calls + 1
    IN  CASE o = "pending" -> LoopSuspend(q)
          \* thrown by the action, or by f.get0() on a failed future
          [] o \in {"throw", "exc"} -> LoopReturn(q, "exc", k)
          [] o = "yes" -> LoopReturn(q, "ok", 0)
          [] OTHER -> IF np THEN LoopSchedule(NeedPreempt(q), "no")
                            ELSE NeedPreempt(q)

\* The head of repeater::run_and_dispose: look at the result slot.
repeater_run_and_dispose(l) ==
    CASE l.state = "exc" -> LoopResolve(l, "exc", l.state_val)
      [] l.state = "yes" -> LoopResolve(l, "ok", 0)
      [] OTHER -> [l EXCEPT !.pc = "run", !.state = "none"]

\* A repeater that goes on after a failed iteration.
repeater_loop_swallows_failure(l, o, np) ==
    LET q == LoopInvoke(l, o)
        k == l.calls + 1
    IN  CASE o = "pending" -> [q EXCEPT !.pc = "waiting"]
          [] o = "yes" -> LoopResolve(q, "ok", 0)
          [] OTHER -> IF np THEN LoopReschedule(NeedPreempt(q), "no")
                            ELSE NeedPreempt(q)

\* One pass of the do-while of repeater::run_and_dispose, with its exits.
repeater_loop(l, o, np) ==
    LET q == LoopInvoke(l, o)
        k == l.calls + 1
    IN  CASE o = "pending" -> [q EXCEPT !.pc = "waiting"]
          [] o \in {"throw", "exc"} -> LoopResolve(q, "exc", k)
          [] o = "yes" -> LoopResolve(q, "ok", 0)
          [] OTHER -> IF np THEN LoopReschedule(NeedPreempt(q), "no")
                            ELSE NeedPreempt(q)

\* One pass of the do-while of repeat_until_value(), with its exits.  The
\* loop is not inside a try block: what the action throws leaves the call.
repeat_until_value(l, o, np) ==
    LET q == LoopInvoke(l, o)
        k == l.calls + 1
    IN  CASE o = "pending" -> LoopSuspend(q)
          [] o = "throw" -> LoopEscape(q, k)
          [] o = "exc" -> LoopReturn(q, "exc", k)
          [] o = "yes" -> LoopReturn(q, "ok", k)
          [] OTHER -> IF np THEN LoopSchedule(NeedPreempt(q), "no")
                            ELSE NeedPreempt(q)

\* A repeat_until_value_state that, woken up with an engaged optional, drops
\* it and goes round again.
repeat_until_value_state_run_and_dispose_drops_value(l) ==
    IF l.state = "exc"
    THEN LoopResolve(l, "exc", l.state_val)
    ELSE [l EXCEPT !.pc = "run", !.state = "none"]

\* The head of repeat_until_value_state::run_and_dispose.
repeat_until_value_state_run_and_dispose(l) ==
    CASE l.state = "exc" -> LoopResolve(l, "exc", l.state_val)
      [] l.state = "yes" -> LoopResolve(l, "ok", l.state_val)
      [] OTHER -> [l EXCEPT !.pc = "run", !.state = "none"]

\* One pass of the do-while of repeat_until_value_state::run_and_dispose.
repeat_until_value_state_loop(l, o, np) ==
    LET q == LoopInvoke(l, o)
        k == l.calls + 1
    IN  CASE o = "pending" -> [q EXCEPT !.pc = "waiting"]
          [] o \in {"throw", "exc"} -> LoopResolve(q, "exc", k)
          [] o = "yes" -> LoopResolve(q, "ok", k)
          [] OTHER -> IF np THEN LoopReschedule(NeedPreempt(q), "no")
                            ELSE NeedPreempt(q)

StopChecked(l) == [l EXCEPT !.log = Append(@, "stop")]

\* One pass of the do-while of do_until(), with its exits.
do_until(l, stop, o, np) ==
    LET q == LoopInvoke(StopChecked(l), o)
        k == l.calls + 1
    IN  IF stop THEN LoopReturn(StopChecked(l), "ok", 0)
        ELSE CASE o = "pending" -> LoopSuspend(q)
               \* futurator::apply turns a throw into a failed future
               [] o \in {"throw", "exc"} -> LoopReturn(q, "exc", k)
               [] OTHER -> IF np THEN LoopSchedule(NeedPreempt(q), "none")
                                 ELSE NeedPreempt(q)

\* The head of do_until_state::run_and_dispose.
do_until_state_run_and_dispose(l) ==
    IF l.state = "exc"
    THEN LoopResolve(l, "exc", l.state_val)
    ELSE [l EXCEPT !.pc = "run", !.state = "none"]

\* A do_until_state that, once woken up, invokes the action without
\* consulting the stop condition first.
do_until_state_loop_skips_stop(l, stop, o, np) ==
    LET q == LoopInvoke(IF l.epoch = l.call_epoch[l.calls]
                        THEN StopChecked(l) ELSE l, o)
        k == l.calls + 1
    IN  IF stop /\ l.epoch = l.call_epoch[l.calls]
        THEN LoopResolve(StopChecked(l), "ok", 0)
        ELSE CASE o = "pending" -> [q EXCEPT !.pc = "waiting"]
               [] o \in {"throw", "exc"} -> LoopResolve(q, "exc", k)
               [] OTHER -> IF np THEN LoopReschedule(NeedPreempt(q), "none")
                                 ELSE NeedPreempt(q)

\* One pass of the do-while of do_until_state::run_and_dispose.
do_until_state_loop(l, stop, o, np) ==
    LET q == LoopInvoke(StopChecked(l), o)
        k == l.calls + 1
    IN  IF stop THEN LoopResolve(StopChecked(l), "ok", 0)
        ELSE CASE o = "pending" -> [q EXCEPT !.pc = "waiting"]
               [] o \in {"throw", "exc"} -> LoopResolve(q, "exc", k)
               [] OTHER -> IF np THEN LoopReschedule(NeedPreempt(q), "none")
                                 ELSE NeedPreempt(q)

\* do_for_each hands back this result: as a ready future from the outermost
\* call, through the chain of then() futures from a nested one.
DfeResult(l, st, v) ==
    IF l.returned THEN LoopResolve(l, st, v) ELSE LoopReturn(l, st, v)

\* do_for_each: f = futurize<void>::apply(action, *begin); ++begin;
DfeInvoke(l, o) ==
    [LoopInvoke(l, o) EXCEPT !.pos = @ + 1, !.seen = Append(@, l.pos)]

\* A do_for_each whose continuation captures begin as it was before the
\* increment when the loop is cut by preemption.
do_for_each_stale_begin(l, o, np) ==
    LET q == DfeInvoke(l, o)
        k == l.pos
    IN  IF l.pos > l.n THEN DfeResult(l, "ok", 0)
        ELSE IF q.pos > q.n
        THEN CASE o = "pending" ->
                    [q EXCEPT !.pc = "last", !.returned = TRUE,
                              !.result = "pending"]
               [] o \in {"throw", "exc"} -> DfeResult(q, "exc", k)
               [] OTHER -> DfeResult(q, "ok", 0)
        ELSE IF o = "pending"
        THEN [q EXCEPT !.pc = "waiting", !.returned = TRUE, !.heap = TRUE,
                       !.result = "pending"]
        ELSE IF np
        THEN [NeedPreempt(q) EXCEPT
                       !.pc = "queued", !.returned = TRUE, !.heap = TRUE,
                       !.result = "pending", !.trips = @ \cup {k},
                       !.pos = l.pos,
                       !.state = IF o = "no" THEN "no" ELSE "exc",
                       !.state_val = IF o = "no" THEN 0 ELSE k]
        ELSE IF o \in {"throw", "exc"} THEN DfeResult(NeedPreempt(q), "exc", k)
        ELSE NeedPreempt(q)

\* A do_for_each that tests f.failed() only for the last element.
do_for_each_goes_on_after_failure(l, o, np) ==
    LET q == DfeInvoke(l, o)
        k == l.pos
    IN  IF l.pos > l.n THEN DfeResult(l, "ok", 0)
        ELSE IF q.pos > q.n
        THEN CASE o = "pending" ->
                    [q EXCEPT !.pc = "last", !.returned = TRUE,
                              !.result = "pending"]
               [] o \in {"throw", "exc"} -> DfeResult(q, "exc", k)
               [] OTHER -> DfeResult(q, "ok", 0)
        ELSE IF o = "pending"
        THEN [q EXCEPT !.pc = "waiting", !.returned = TRUE, !.heap = TRUE,
                       !.result = "pending"]
        ELSE IF np
        THEN [NeedPreempt(q) EXCEPT
                       !.pc = "queued", !.returned = TRUE, !.heap = TRUE,
                       !.result = "pending", !.trips = @ \cup {k},
                       !.state = IF o = "no" THEN "no" ELSE "exc",
                       !.state_val = IF o = "no" THEN 0 ELSE k]
        ELSE NeedPreempt(q)

\* do_for_each(begin, end, action): the begin == end test on entry, then one
\* pass of the while loop.  It runs in the caller ("sync") and again, through
\* the continuation given to then(), for the rest of the range ("run").
do_for_each(l, o, np) ==
    LET q == DfeInvoke(l, o)
        k == l.pos
    IN  IF l.pos > l.n THEN DfeResult(l, "ok", 0)
        ELSE IF q.pos > q.n
        THEN \* the last element: return f
             CASE o = "pending" ->
                    [q EXCEPT !.pc = "last", !.returned = TRUE,
                              !.result = "pending"]
               [] o \in {"throw", "exc"} -> DfeResult(q, "exc", k)
               [] OTHER -> DfeResult(q, "ok", 0)
        ELSE IF o = "pending"
        THEN \* f.then(...): the continuation waits for f
             [q EXCEPT !.pc = "waiting", !.returned = TRUE, !.heap = TRUE,
                       !.result = "pending"]
        ELSE IF np
        THEN \* f.then(...) on an available future, under preemption: the
             \* continuation is scheduled with f's result
             [NeedPreempt(q) EXCEPT
                       !.pc = "queued", !.returned = TRUE, !.heap = TRUE,
                       !.result = "pending", !.trips = @ \cup {k},
                       !.state = IF o = "no" THEN "no" ELSE "exc",
                       !.state_val = IF o = "no" THEN 0 ELSE k]
        ELSE IF o \in {"throw", "exc"} THEN DfeResult(NeedPreempt(q), "exc", k)
        ELSE NeedPreempt(q)

\* The continuation do_for_each gave to then() runs: a failed f goes to the
\* returned future, otherwise do_for_each is called on the rest of the range.
do_for_each_continuation(l) ==
    IF l.state = "exc"
    THEN LoopResolve(l, "exc", l.state_val)
    ELSE [l EXCEPT !.pc = "run", !.state = "none", !.heap = FALSE]

\* The future of the last element, which do_for_each returned as it was,
\* completes.
do_for_each_last_completes(l, o) ==
    LoopResolve([l EXCEPT !.outs[l.calls] = o],
                IF o = "no" THEN "ok" ELSE "exc",
                IF o = "no" THEN 0 ELSE l.calls)

\* A completion that puts the result in the state's slot without scheduling
\* the state.
loop_complete_without_schedule(l, o) ==
    [l EXCEPT !.state = o,
              !.state_val = IF o = "no" THEN 0 ELSE l.calls,
              !.outs[l.calls] = o]

\* The pending action future completes with o: the heap state installed on
\* it is scheduled with o in its result slot.
loop_complete(l, o) ==
    [l EXCEPT !.pc = "queued", !.state = o,
              !.state_val = IF o = "no" THEN 0 ELSE l.calls,
              !.outs[l.calls] = o]

\* What an invocation of the action can produce.  keep_doing wraps its
\* action so that success always means "go on".
\* The actions of do_until and do_for_each return future<>: "no" is their
\* ready success.  For repeat_until_value "no" is a disengaged optional and
\* "yes" an engaged one, holding the number of the invocation.
ActionOutcomes ==
    IF comb \in {"repeat", "repeat_until_value"}
    THEN {"throw", "exc", "pending", "no", "yes"}
    ELSE IF comb = "keep_doing"
         THEN {"throw", "exc", "pending", "ok"}
         ELSE {"throw", "exc", "pending", "no"}

LaterOutcomes == ActionOutcomes \ {"throw", "pending"}

\* A keep_doing whose wrapper asks repeat to stop after a success.
keep_doing_stops_on_success(o) == IF o = "ok" THEN "yes" ELSE o

\* keep_doing: the action repeat is given is
\* action().then([] { return stop_iteration::no; }), so a success ("ok") of
\* keep_doing's action reaches repeat as "no"; a throw, a failure and a
\* pending future pass through.
keep_doing(o) == IF o = "ok" THEN "no" ELSE o

\* What repeat's action produces when the caller's action produces o.
RepeatAction(o) == IF comb = "keep_doing" THEN keep_doing(o) ELSE o

IsRepeat == comb \in {"repeat", "keep_doing"}

Repeat ==
    /\ IsRepeat
    /\ lp.pc = "sync" /\ lp.calls < MaxCalls
    /\ \E o \in ActionOutcomes, np \in BOOLEAN : lp' = repeat(lp, RepeatAction(o), np)
    /\ UNCHANGED NotLp

RepeaterRunAndDispose ==
    /\ IsRepeat
    /\ lp.pc = "queued"
    /\ lp' = repeater_run_and_dispose([lp EXCEPT !.epoch = @ + 1])
    /\ UNCHANGED NotLp

RepeaterLoop ==
    /\ IsRepeat
    /\ lp.pc = "run" /\ lp.calls < MaxCalls
    /\ \E o \in ActionOutcomes, np \in BOOLEAN : lp' = repeater_loop(lp, RepeatAction(o), np)
    /\ UNCHANGED NotLp

RepeatUntilValue ==
    /\ comb = "repeat_until_value"
    /\ lp.pc = "sync" /\ lp.calls < MaxCalls
    /\ \E o \in ActionOutcomes, np \in BOOLEAN :
          lp' = repeat_until_value(lp, o, np)
    /\ UNCHANGED NotLp

RepeatUntilValueStateRunAndDispose ==
    /\ comb = "repeat_until_value"
    /\ lp.pc = "queued"
    /\ lp' = repeat_until_value_state_run_and_dispose(
                 [lp EXCEPT !.epoch = @ + 1])
    /\ UNCHANGED NotLp

RepeatUntilValueStateLoop ==
    /\ comb = "repeat_until_value"
    /\ lp.pc = "run" /\ lp.calls < MaxCalls
    /\ \E o \in ActionOutcomes, np \in BOOLEAN :
          lp' = repeat_until_value_state_loop(lp, o, np)
    /\ UNCHANGED NotLp

DoUntil ==
    /\ comb = "do_until"
    /\ lp.pc = "sync"
    /\ \E stop \in BOOLEAN, o \in ActionOutcomes, np \in BOOLEAN :
          /\ stop \/ lp.calls < MaxCalls
          /\ lp' = do_until(lp, stop, o, np)
    /\ UNCHANGED NotLp

DoUntilStateRunAndDispose ==
    /\ comb = "do_until"
    /\ lp.pc = "queued"
    /\ lp' = do_until_state_run_and_dispose([lp EXCEPT !.epoch = @ + 1])
    /\ UNCHANGED NotLp

DoUntilStateLoop ==
    /\ comb = "do_until"
    /\ lp.pc = "run"
    /\ \E stop \in BOOLEAN, o \in ActionOutcomes, np \in BOOLEAN :
          /\ stop \/ lp.calls < MaxCalls
          /\ lp' = do_until_state_loop(lp, stop, o, np)
    /\ UNCHANGED NotLp

DoForEach ==
    /\ comb = "do_for_each"
    /\ lp.pc \in {"sync", "run"}
    /\ \E o \in ActionOutcomes, np \in BOOLEAN : lp' = do_for_each(lp, o, np)
    /\ UNCHANGED NotLp

DoForEachContinuation ==
    /\ comb = "do_for_each"
    /\ lp.pc = "queued"
    /\ lp' = do_for_each_continuation([lp EXCEPT !.epoch = @ + 1])
    /\ UNCHANGED NotLp

DoForEachLastCompletes ==
    /\ comb = "do_for_each"
    /\ lp.pc = "last"
    /\ \E o \in LaterOutcomes : lp' = do_for_each_last_completes(lp, o)
    /\ UNCHANGED NotLp

\* The promise behind the pending action future is set.
LoopComplete ==
    /\ comb \in LoopKinds
    /\ lp.pc = "waiting"
    /\ \E o \in LaterOutcomes : lp' = loop_complete(lp, RepeatAction(o))
    /\ UNCHANGED NotLp

\* The reactor runs a task that is not the loop's.
LoopOtherTask ==
    /\ comb \in LoopKinds
    /\ lp.pc \in {"waiting", "queued"} /\ lp.others < MaxOther
    /\ lp' = [lp EXCEPT !.epoch = @ + 1, !.others = @ + 1]
    /\ UNCHANGED NotLp

InitLoop ==
    /\ comb \in LoopKinds
    /\ pfe = PfeIdle /\ wt = WtIdle /\ wa = WaIdle /\ mr = MrIdle /\ sg = SgIdle
    /\ \E n \in 0..MaxCalls :
          lp = [LpIdle EXCEPT !.pc = "sync",
                              !.n = IF comb = "do_for_each" THEN n ELSE 0]

NextLoop ==
    \/ Repeat \/ RepeaterRunAndDispose \/ RepeaterLoop
    \/ RepeatUntilValue \/ RepeatUntilValueStateRunAndDispose
    \/ RepeatUntilValueStateLoop
    \/ DoUntil \/ DoUntilStateRunAndDispose \/ DoUntilStateLoop
    \/ DoForEach \/ DoForEachContinuation \/ DoForEachLastCompletes
    \/ LoopComplete \/ LoopOtherTask

SpecLoop == InitLoop /\ [][NextLoop]_vars

\* ------------------------------------------------ when_all, when_all_succeed
TupleForms == {"when_all", "when_all_succeed"}
IteratorForms == {"when_all_iterator", "when_all_succeed_iterator"}
WhenAllKinds == TupleForms \cup IteratorForms
SucceedForms == {"when_all_succeed", "when_all_succeed_iterator"}

\* The state of the future in position i of the tuple.
SlotState(w, i) == IF w.slot[i] = "linked" THEN w.fut[i] ELSE w.slot[i]
\* future::available() on it
SlotAvailable(w, i) == SlotState(w, i) \in {"ok", "exc"}

WaFailed(w) == {i \in 1..w.n : SlotState(w, i) = "exc"}
Min(S) == CHOOSE x \in S : \A y \in S : x <= y

Shapes == {"void", "single", "multi"}
\* internal::future_has_value: every future type but future<>
future_has_value(shape) == shape # "void"

\* The tuple get() gives on a successful future of type shape that holds the
\* result of sub-future e: sub-future e produces e, or the pair (e, -e).
FutureValue(shape, e) ==
    CASE shape = "single" -> <<e>>
      [] shape = "multi" -> <<e, -e>>
      [] OTHER -> <<>>

\* internal::untuple: a one-element tuple gives its bare element, any other
\* tuple stays a tuple.
untuple(t) == [bare |-> Len(t) = 1, v |-> t]

\* A transform that maps every future, those without a value included.
extract_values_keeps_void(w) ==
    [j \in 1..w.n |-> untuple(FutureValue(w.shape[j], w.origin[j]))]

\* The values extracted when every future succeeded: of the futures that
\* have a value, in position order, untuple(f.get()) (prepare_result in
\* extract_values_from_futures_tuple; the loop of
\* extract_values_from_futures_vector::run, whose futures all have one type,
\* and its specialization for future<>, which extracts nothing).
extract_values(w) ==
    LET kept == SelectSeq([i \in 1..w.n |-> i],
                          LAMBDA i : future_has_value(w.shape[i]))
    IN  [j \in 1..Len(kept) |->
            untuple(FutureValue(w.shape[kept[j]], w.origin[kept[j]]))]

\* A transform that stops looking at the futures once it has found a failed
\* one.
ResolvedTransform_stops_at_failure(w, succeed) ==
    LET o == [i \in 1..w.n |-> SlotState(w, i)]
        r == [w EXCEPT !.out = o,
                       !.out_origin = [i \in 1..w.n |-> w.origin[i]],
                       !.sets = @ + 1]
        first == Min(WaFailed(w))
    IN  IF succeed /\ WaFailed(w) # {}
        THEN [r EXCEPT !.result = "exc", !.result_ex = w.origin[first],
                       !.observed = {w.origin[first]}]
        ELSE [r EXCEPT !.result = "ok", !.result_ex = NoEx,
                       !.result_val = IF succeed THEN extract_values(w)
                                                 ELSE <<>>]

\* A transform that goes on looking for failures after the first one and
\* reports the last.
ResolvedTransform_reports_last(w, succeed) ==
    LET o == [i \in 1..w.n |-> SlotState(w, i)]
        r == [w EXCEPT !.out = o,
                       !.out_origin = [i \in 1..w.n |-> w.origin[i]],
                       !.sets = @ + 1]
        first == Min(WaFailed(w))
        last == CHOOSE x \in WaFailed(w) : \A y \in WaFailed(w) : y <= x
    IN  IF succeed /\ WaFailed(w) # {}
        THEN [r EXCEPT !.result = "exc", !.result_ex = w.origin[last],
                       !.observed = {w.origin[last]},
                       !.ignored = {w.origin[i] : i \in WaFailed(w) \ {last}},
                       !.got = IF comb \in IteratorForms
                               THEN {w.origin[i] : i \in
                                       {j \in 1..(first - 1) :
                                           future_has_value(w.shape[j])}}
                               ELSE {}]
        ELSE [r EXCEPT !.result = "ok", !.result_ex = NoEx,
                       !.got = IF succeed
                               THEN {w.origin[i] : i \in
                                       {j \in 1..w.n :
                                           future_has_value(w.shape[j])}}
                               ELSE {},
                       !.result_val = IF succeed THEN extract_values(w)
                                                 ELSE <<>>]

\* The output made of the ready futures: the futures themselves
\* (identity_futures_tuple, identity_futures_vector), or, for
\* when_all_succeed, their values unless one failed: the exception of the
\* first failed future in position order is taken out and reported, and
\* every future after it is ignored (extract_values_from_futures_tuple,
\* extract_values_from_futures_vector).
ResolvedTransform(w, succeed) ==
    LET o == [i \in 1..w.n |-> SlotState(w, i)]
        r == [w EXCEPT !.out = o,
                       !.out_origin = [i \in 1..w.n |-> w.origin[i]],
                       !.sets = @ + 1]
        first == Min(WaFailed(w))
    IN  IF succeed /\ WaFailed(w) # {}
        THEN [r EXCEPT !.result = "exc", !.result_ex = w.origin[first],
                       !.observed = {w.origin[first]},
                       !.ignored = {w.origin[i] : i \in (first + 1)..w.n},
                       \* extract_values_from_futures_vector::run has put
                       \* the values before the failure in its vector
                       !.got = IF comb \in IteratorForms
                               THEN {w.origin[i] : i \in
                                       {j \in 1..(first - 1) :
                                           future_has_value(w.shape[j])}}
                               ELSE {}]
        ELSE [r EXCEPT !.result = "ok", !.result_ex = NoEx,
                       !.got = IF succeed
                               THEN {w.origin[i] : i \in
                                       {j \in 1..w.n :
                                           future_has_value(w.shape[j])}}
                               ELSE {},
                       !.result_val = IF succeed THEN extract_values(w)
                                                 ELSE <<>>]

\* ~when_all_state: set_promise(p, std::move(tuple)), the state being deleted.
when_all_state_destructor(w, succeed) ==
    [ResolvedTransform(w, succeed) EXCEPT !.heap = FALSE, !.deleted = @ + 1]

\* The loop of complete_one, after its first decrement: process the slots
\* from the last to the first, stopping at one that is not ready, on which
\* the continuation is built in _cont and installed.
RECURSIVE WaDrive(_, _)
WaDrive(w, succeed) ==
    IF w.nr_remain = 0 THEN when_all_state_destructor(w, succeed)
    ELSE IF SlotAvailable(w, w.nr_remain)
         THEN WaDrive([w EXCEPT !.nr_remain = @ - 1,
                                !.driven = Append(@, w.nr_remain),
                                !.found = Append(@, w.nr_remain)], succeed)
         ELSE [w EXCEPT !.cont = w.nr_remain,
                        !.driven = Append(@, w.nr_remain),
                        !.installs = Append(@, w.nr_remain),
                        !.slot[w.nr_remain] = "detached",
                        !.origin[w.nr_remain] = 0]

\* A complete_one that starts over from the last slot every time.
complete_one_restarts(w, succeed) ==
    WaDrive([w EXCEPT !.nr_remain = w.n], succeed)

\* when_all_state_base::complete_one
complete_one(w, succeed) ==
    WaDrive([w EXCEPT !.nr_remain = @ - 1], succeed)

\* A do_wait_all without the extra increment.
do_wait_all_no_increment(w, succeed) ==
    complete_one(w, succeed)

\* when_all_state_base::do_wait_all
do_wait_all(w, succeed) ==
    complete_one([w EXCEPT !.nr_remain = @ + 1], succeed)

\* A wait_all whose shortcut is taken when some future is available, not
\* when all are.
wait_all_some_available(w, succeed) ==
    IF w.n = 0 \/ \E i \in 1..w.n : SlotAvailable(w, i)
    THEN ResolvedTransform([w EXCEPT !.pc = "returned"], succeed)
    ELSE do_wait_all([w EXCEPT !.pc = "returned", !.heap = TRUE,
                               !.result = "pending", !.nr_remain = w.n],
                     succeed)

\* A wait_all that resolves the output before driving the slots.
wait_all_resolves_early(w, succeed) ==
    IF \A i \in 1..w.n : SlotAvailable(w, i)
    THEN ResolvedTransform([w EXCEPT !.pc = "returned"], succeed)
    ELSE do_wait_all([ResolvedTransform(w, succeed) EXCEPT
                         !.pc = "returned", !.heap = TRUE,
                         !.nr_remain = w.n], succeed)

\* when_all_state::wait_all
wait_all(w, succeed) ==
    IF \A i \in 1..w.n : SlotAvailable(w, i)
    THEN ResolvedTransform([w EXCEPT !.pc = "returned"], succeed)
    ELSE do_wait_all([w EXCEPT !.pc = "returned", !.heap = TRUE,
                               !.result = "pending", !.nr_remain = w.n],
                     succeed)

\* A continuation that resumes the driver at its own position instead of
\* below it.
when_all_state_component_run_and_dispose_redrives(w, succeed) ==
    WaDrive([w EXCEPT !.slot[w.cont] = w.cont_state,
                      !.ran = Append(@, w.cont),
                      !.origin[w.cont] = w.cont_of, !.cont = 0,
                      !.cont_state = "none", !.cont_of = 0,
                      !.queued = FALSE],
            succeed)

\* when_all_state_component::run_and_dispose: the continuation moves the
\* result into its final resting place and resumes the driver.
when_all_state_component_run_and_dispose(w, succeed) ==
    complete_one([w EXCEPT !.slot[w.cont] = w.cont_state,
                           !.ran = Append(@, w.cont),
                           !.origin[w.cont] = w.cont_of, !.cont = 0,
                           !.cont_state = "none", !.cont_of = 0,
                           !.queued = FALSE],
                 succeed)

\* The first position at or after pos whose future is not available.
RECURSIVE SkipReady(_, _)
SkipReady(w, pos) ==
    IF pos <= w.n /\ SlotAvailable(w, pos) THEN SkipReady(w, pos + 1) ELSE pos

\* internal::complete_when_all
complete_when_all(w, succeed) ==
    LET pos == SkipReady(w, w.pos)
        v == [w EXCEPT !.found = @ \o [k \in 1..(pos - w.pos) |->
                                           w.pos + k - 1]]
    IN  IF pos > w.n
        THEN [ResolvedTransform(v, succeed) EXCEPT
                  !.pc = "returned", !.pos = pos, !.heap = FALSE]
        ELSE \* pos->then_wrapped(...): the continuation owns the vector
             [v EXCEPT !.pc = "returned", !.pos = pos, !.heap = TRUE,
                       !.result = "pending",
                       !.installs = Append(@, pos),
                       !.cont = pos, !.slot[pos] = "detached",
                       !.origin[pos] = 0]

\* A continuation that stores the result at the start of the vector instead
\* of at pos.
complete_when_all_continuation_stores_at_begin(w, succeed) ==
    complete_when_all([w EXCEPT !.slot[1] = w.cont_state,
                                !.origin[1] = w.cont_of,
                                !.pos = w.cont + 1, !.cont = 0,
                                !.cont_state = "none", !.cont_of = 0,
                                !.queued = FALSE],
                      succeed)

\* The continuation complete_when_all gave to then_wrapped:
\* *pos++ = std::move(fut), and complete_when_all on the rest.
complete_when_all_continuation(w, succeed) ==
    complete_when_all([w EXCEPT !.slot[w.cont] = w.cont_state,
                                !.ran = Append(@, w.cont),
                                !.origin[w.cont] = w.cont_of,
                                !.pos = w.cont + 1, !.cont = 0,
                                !.cont_state = "none", !.cont_of = 0,
                                !.queued = FALSE],
                      succeed)

\* A sub-future is completed by whoever holds its promise; the continuation
\* installed on it, if any, is scheduled with the result.
wa_complete(w, e, o) ==
    LET w1 == [w EXCEPT !.fut[e] = o,
                        !.late = IF w.pc = "call" THEN @ ELSE @ \cup {e}]
    IN  IF w.cont = e
        THEN [w1 EXCEPT !.cont_state = o, !.cont_of = e, !.queued = TRUE]
        ELSE w1

\* A futurize_apply_if_func that lets the exception of a throwing callable
\* leave a ready sub-future behind.
futurize_apply_if_func_swallows(w, e) ==
    IF w.kind[e] = "func"
    THEN [w EXCEPT !.invoked = Append(@, e),
                   !.fut[e] = IF @ = "throw" THEN "ok" ELSE @,
                   !.threw = IF w.fut[e] = "throw" THEN @ \cup {e} ELSE @]
    ELSE w

\* futurize_apply_if_func on argument e: a future is passed on, a callable is
\* invoked through futurize_apply, which turns a throw into a failed future.
futurize_apply_if_func(w, e) ==
    IF w.kind[e] = "func"
    THEN [w EXCEPT !.invoked = Append(@, e),
                   !.fut[e] = IF @ = "throw" THEN "exc" ELSE @,
                   !.threw = IF w.fut[e] = "throw" THEN @ \cup {e} ELSE @]
    ELSE w

\* The arguments of when_all_impl(futurize_apply_if_func(fut_or_funcs)...) are
\* evaluated one after the other, in the order given.
RECURSIVE EvalArgs(_, _)
EvalArgs(w, order) ==
    IF order = <<>> THEN w
    ELSE EvalArgs(futurize_apply_if_func(w, Head(order)), Tail(order))

\* The orders in which a build may evaluate the arguments of a call: the
\* language leaves the order open. Evaluating a future argument only forwards
\* it, so the orders of the callables F are all that tell the builds apart.
ArgOrders(F) ==
    {o \in [1..Cardinality(F) -> F] :
        \A j, k \in 1..Cardinality(F) : o[j] = o[k] => j = k}

WhenAll ==
    /\ comb \in WhenAllKinds
    /\ wa.pc = "call"
    /\ \E order \in ArgOrders({e \in 1..wa.n : wa.kind[e] = "func"}) :
          wa' = IF comb \in TupleForms
                THEN wait_all(EvalArgs(wa, order), comb \in SucceedForms)
                ELSE complete_when_all(wa, comb \in SucceedForms)
    /\ UNCHANGED NotWa

WaComplete ==
    /\ comb \in WhenAllKinds
    /\ \E e \in Elems, o \in {"ok", "exc"} :
          /\ wa.fut[e] = "pending"
          /\ wa' = wa_complete(wa, e, o)
    /\ UNCHANGED NotWa

WhenAllStateComponentRunAndDispose ==
    /\ comb \in TupleForms
    /\ wa.queued
    /\ wa' = when_all_state_component_run_and_dispose(wa,
                                                      comb \in SucceedForms)
    /\ UNCHANGED NotWa

CompleteWhenAllContinuation ==
    /\ comb \in IteratorForms
    /\ wa.queued
    /\ wa' = complete_when_all_continuation(wa, comb \in SucceedForms)
    /\ UNCHANGED NotWa

\* The lists of future types the calls are made with: one type throughout,
\* or the three types in turn, starting with any of them.
ShapeSeq == <<"void", "single", "multi">>
TypeLists ==
    {[e \in Elems |-> s] : s \in Shapes}
        \cup {[e \in Elems |-> ShapeSeq[((e + k) % 3) + 1]] : k \in 0..2}

InitWa ==
    /\ comb \in WhenAllKinds
    /\ pfe = PfeIdle /\ wt = WtIdle /\ lp = LpIdle
    /\ mr = MrIdle /\ sg = SgIdle
    /\ \E n \in 0..MaxElems, f \in [Elems -> FutureOutcomes \cup {"throw"}],
          sh \in TypeLists, k \in [Elems -> {"future", "func"}] :
          \* callables are handed to the variadic forms only, in calls of at
          \* most MaxFuncs arguments, all of them of type future<T>
          /\ \A e \in Elems :
                k[e] = "func" => /\ e <= n /\ n <= MaxFuncs
                                 /\ comb \in TupleForms
                                 /\ \A d \in Elems : sh[d] = "single"
          /\ \A e \in Elems : f[e] = "throw" => k[e] = "func"
          \* the futures of a range have one type; only when_all_succeed
          \* looks at the types
          /\ comb \in IteratorForms => \A e \in Elems : sh[e] = sh[1]
          /\ comb \notin SucceedForms => \A e \in Elems : sh[e] = "single"
          /\ wa = [WaIdle EXCEPT
                  !.pc = "call", !.n = n,
                  !.fut = [e \in Elems |-> IF e <= n THEN f[e] ELSE "none"],
                  !.kind = [e \in Elems |-> IF e <= n THEN k[e] ELSE "none"],
                  !.shape = [e \in Elems |-> IF e <= n THEN sh[e]
                                                       ELSE "none"],
                  !.origin = [e \in Elems |-> IF e <= n THEN e ELSE 0],
                  !.slot = [e \in Elems |-> IF e <= n THEN "linked"
                                                      ELSE "none"]]

NextWa ==
    WhenAll \/ WaComplete \/ WhenAllStateComponentRunAndDispose
        \/ CompleteWhenAllContinuation

SpecWa == InitWa /\ [][NextWa]_vars

\* ----------------------------------------------------------------- map_reduce
MapReduceKinds == {"map_reduce_reducer", "map_reduce_initial"}
MapperOutcomes == {"ok", "exc", "pending"}
\* What the reducer object's call gives (a future<>), or what the binary
\* reduce function does (it returns, or throws: "exc").
ReduceOutcomes(kind) ==
    IF kind = "map_reduce_reducer" THEN {"ok", "exc", "pending"}
                                   ELSE {"ok", "exc"}

\* ret before the loop is make_ready_future<>(); position 0 stands for it.
RetState(r, e) == IF e = 0 THEN "ok" ELSE r.ret[e]
RetEx(r, e) == IF e = 0 THEN NoEx ELSE r.ret_ex[e]
RetAvailable(r, e) == RetState(r, e) \in {"ok", "exc"}
\* The exception of element e's mapper, and of the reduction of element e.
MapperEx(e) == e
ReduceEx(e) == MaxMapped + e

\* The ret of element e gets its result. The continuation waiting on it is
\* scheduled; a ret that was returned as the next one's result takes it too.
RECURSIVE MrResolve(_, _, _, _)
MrResolve(r, e, s, x) ==
    LET r1 == [r EXCEPT !.ret[e] = s, !.ret_ex[e] = x, !.st[e] = "done"]
    IN  IF e = r.n
        THEN IF r.fin = "waiting"
             THEN [r1 EXCEPT !.fin = "queued", !.q = Append(@, 0)]
             ELSE r1
        ELSE IF r.st[e + 1] = "wait_ret"
             THEN [r1 EXCEPT !.st[e + 1] = "l2_queued",
                             !.q = Append(@, e + 1)]
             ELSE IF r.st[e + 1] = "follow"
                  THEN MrResolve(r1, e + 1, s, x)
                  ELSE r1

\* The inner continuation without its rf.failed() test.
map_reduce_reducer_inner_no_bypass(r, e, o) ==
    IF r.m[e] = "exc"
    THEN MrResolve([r EXCEPT !.observed = @ \cup {e}], e, "exc",
                   MapperEx(e))
    ELSE LET r1 == [r EXCEPT !.acc = Append(@, e),
                             !.observed = @ \cup {e},
                             !.folds = Append(@, e), !.red[e] = o]
         IN  IF o = "pending"
             THEN [r1 EXCEPT !.st[e] = "reducing"]
             ELSE MrResolve(r1, e, o,
                            IF o = "exc" THEN ReduceEx(e) ELSE NoEx)

\* The inner continuation of the reducer form, on the previous ret (rf):
\* a failed rf is passed on and f is ignored; otherwise the reducer is
\* called with f.get(), which throws f's exception if the mapper failed.
map_reduce_reducer_inner(r, e, o) ==
    IF RetState(r, e - 1) = "exc"
    THEN MrResolve([r EXCEPT !.ignored = @ \cup {e}], e, "exc",
                   RetEx(r, e - 1))
    ELSE IF r.m[e] = "exc"
         THEN MrResolve([r EXCEPT !.observed = @ \cup {e}], e, "exc",
                        MapperEx(e))
         ELSE LET r1 == [r EXCEPT !.acc = Append(@, e),
                                  !.observed = @ \cup {e},
                                  !.folds = Append(@, e), !.red[e] = o]
              IN  IF o = "pending"
                  THEN [r1 EXCEPT !.st[e] = "reducing",
                                  !.pend = @ \cup {e}]
                  ELSE MrResolve(r1, e, o,
                                 IF o = "exc" THEN ReduceEx(e) ELSE NoEx)

\* The outer continuation of the reducer form, on the mapper's future (f):
\* ret.then_wrapped(inner), run on the spot when ret is available and no
\* preemption is needed.
map_reduce_reducer_outer(r, e, o, np) ==
    IF RetAvailable(r, e - 1)
    THEN IF np THEN [r EXCEPT !.st[e] = "l2_queued", !.q = Append(@, e)]
               ELSE map_reduce_reducer_inner(r, e, o)
    ELSE [r EXCEPT !.st[e] = "wait_ret"]

\* A catch handler that replaces the previous ret's result without calling
\* ignore_ready_future() on it.
map_reduce_initial_inner_drops_ret(r, e) ==
    MrResolve(r, e, "exc",
              IF r.m[e] = "exc" THEN MapperEx(e) ELSE ReduceEx(e))

\* The handler of the initial-value form's catch clause, on the previous
\* ret: its result is dropped and the caught exception is the result.
map_reduce_initial_inner(r, e) ==
    MrResolve([r EXCEPT !.ret_ignored = @ \cup {e - 1}], e, "exc",
              IF r.m[e] = "exc" THEN MapperEx(e) ELSE ReduceEx(e))

\* The outer continuation of the initial-value form, on the mapper's future:
\* fold f.get0() into the result and return the previous ret; if get0 or
\* reduce throws, return ret.then_wrapped(handler). An m of "threw" records
\* that the caught exception is reduce's, not the mapper's.
map_reduce_initial_outer(r, e, o, np) ==
    IF r.m[e] = "ok" /\ o = "ok"
    THEN LET r1 == [r EXCEPT !.acc = Append(@, e),
                             !.observed = @ \cup {e},
                             !.folds = Append(@, e), !.red[e] = o]
         IN  IF RetAvailable(r, e - 1)
             THEN MrResolve(r1, e, RetState(r, e - 1), RetEx(r, e - 1))
             ELSE [r1 EXCEPT !.st[e] = "follow"]
    ELSE LET r0 == [r EXCEPT !.observed = @ \cup {e}]
             r1 == IF r.m[e] = "ok"
                   THEN [r0 EXCEPT !.m[e] = "threw",
                                   !.folds = Append(@, e), !.red[e] = o]
                   ELSE r0
         IN  IF RetAvailable(r, e - 1)
             THEN IF np THEN [r1 EXCEPT !.st[e] = "l2_queued",
                                        !.q = Append(@, e)]
                        ELSE map_reduce_initial_inner(r1, e)
             ELSE [r1 EXCEPT !.st[e] = "wait_ret"]

MrOuter(kind, r, e, o, np) ==
    IF kind = "map_reduce_reducer" THEN map_reduce_reducer_outer(r, e, o, np)
                                   ELSE map_reduce_initial_outer(r, e, o, np)
MrInner(kind, r, e, o) ==
    IF kind = "map_reduce_reducer" THEN map_reduce_reducer_inner(r, e, o)
                                   ELSE map_reduce_initial_inner(r, e)

\* A round that does not wait for a pending mapper future when the previous
\* ret has already failed.
map_reduce_loop_body_skips_wait(kind, r, e, mo, o, np) ==
    LET r1 == [r EXCEPT !.m[e] = mo, !.ret[e] = "pending",
                        !.mapped = Append(@, e)]
    IN  IF mo = "pending"
        THEN IF RetState(r, e - 1) = "exc"
             THEN MrResolve(r1, e, "exc", RetEx(r, e - 1))
             ELSE [r1 EXCEPT !.st[e] = "wait_m"]
        ELSE IF np THEN [r1 EXCEPT !.st[e] = "l1_queued",
                                   !.q = Append(@, e)]
             ELSE MrOuter(kind, r1, e, o, np)

\* One round of the loop: ret = apply(mapper, *begin++).then_wrapped(outer).
\* A mapper that throws gives an exceptional future.
map_reduce_loop_body(kind, r, e, mo, o, np) ==
    LET r1 == [r EXCEPT !.m[e] = mo, !.ret[e] = "pending",
                        !.mapped = Append(@, e)]
    IN  IF mo = "pending" THEN [r1 EXCEPT !.st[e] = "wait_m",
                                          !.pend = @ \cup {e}]
        ELSE IF np THEN [r1 EXCEPT !.st[e] = "l1_queued",
                                   !.q = Append(@, e)]
             ELSE MrOuter(kind, r1, e, o, np)

\* The loop from element e on. need_preempt() is false before round npAt
\* and true from it on.
RECURSIVE map_reduce_loop(_, _, _, _, _, _)
map_reduce_loop(kind, r, e, mos, os, npAt) ==
    IF e > r.n THEN r
    ELSE map_reduce_loop(kind,
                         map_reduce_loop_body(kind, r, e, mos[e], os[e],
                                              e >= npAt),
                         e + 1, mos, os, npAt)

\* The continuation of the final then(): the last ret's failure is passed
\* on; otherwise the output is the reducer's get() or the folded result.
map_reduce_final(r) ==
    [r EXCEPT !.fin = "done",
              !.result = RetState(r, r.n), !.result_ex = RetEx(r, r.n),
              !.result_val = IF RetState(r, r.n) = "ok" THEN r.acc ELSE <<>>,
              !.sets = @ + 1]

\* map_reduce, both overloads: the loop, then the final then() on ret.
map_reduce(kind, r, mos, os, npAt) ==
    LET r1 == map_reduce_loop(kind, [r EXCEPT !.pc = "returned",
                                              !.shared = TRUE,
                                              !.np_at = npAt,
                                              !.result = "pending"],
                              1, mos, os, npAt)
    IN  IF RetAvailable(r1, r1.n)
        THEN IF r1.n + 1 >= npAt
             THEN [r1 EXCEPT !.fin = "queued", !.q = Append(@, 0)]
             ELSE map_reduce_final(r1)
        ELSE [r1 EXCEPT !.fin = "waiting"]

\* The mapper's future of element e is completed; the outer continuation
\* installed on it is scheduled.
mr_mapper_completes(r, e, mo) ==
    [r EXCEPT !.m[e] = mo, !.st[e] = "l1_queued", !.q = Append(@, e)]

\* The pending future the reducer returned for element e is completed.
mr_reducer_completes(r, e, o) ==
    MrResolve([r EXCEPT !.red[e] = o], e, o,
              IF o = "exc" THEN ReduceEx(e) ELSE NoEx)

MapReduce ==
    /\ comb \in MapReduceKinds
    /\ mr.pc = "call"
    /\ \E mos \in [Mapped -> MapperOutcomes],
          os \in [Mapped -> ReduceOutcomes(comb)],
          npAt \in 1..(mr.n + 2) :
          mr' = map_reduce(comb, mr, mos, os, npAt)
    /\ UNCHANGED NotMr

MrMapperCompletes ==
    /\ comb \in MapReduceKinds
    /\ \E e \in Mapped, mo \in {"ok", "exc"} :
          /\ mr.st[e] = "wait_m"
          /\ mr' = mr_mapper_completes(mr, e, mo)
    /\ UNCHANGED NotMr

MrOuterContinuation ==
    /\ comb \in MapReduceKinds
    /\ \E e \in Mapped, o \in ReduceOutcomes(comb), np \in BOOLEAN :
          /\ mr.st[e] = "l1_queued"
          /\ mr.q # <<>> /\ Head(mr.q) = e
          /\ mr' = MrOuter(comb, [mr EXCEPT !.q = Tail(@)], e, o, np)
    /\ UNCHANGED NotMr

MrInnerContinuation ==
    /\ comb \in MapReduceKinds
    /\ \E e \in Mapped, o \in ReduceOutcomes(comb) :
          /\ mr.st[e] = "l2_queued"
          /\ mr.q # <<>> /\ Head(mr.q) = e
          /\ mr' = MrInner(comb, [mr EXCEPT !.q = Tail(@)], e, o)
    /\ UNCHANGED NotMr

MrReducerCompletes ==
    /\ comb = "map_reduce_reducer"
    /\ \E e \in Mapped, o \in {"ok", "exc"} :
          /\ mr.st[e] = "reducing"
          /\ mr' = mr_reducer_completes(mr, e, o)
    /\ UNCHANGED NotMr

MapReduceFinal ==
    /\ comb \in MapReduceKinds
    /\ mr.fin = "queued"
    /\ mr.q # <<>> /\ Head(mr.q) = 0
    /\ mr' = map_reduce_final([mr EXCEPT !.q = Tail(@)])
    /\ UNCHANGED NotMr

InitMr ==
    /\ comb \in MapReduceKinds
    /\ pfe = PfeIdle /\ wt = WtIdle /\ lp = LpIdle /\ wa = WaIdle
    /\ sg = SgIdle
    /\ \E n \in 0..MaxMapped : mr = [MrIdle EXCEPT !.pc = "call", !.n = n]

NextMr ==
    MapReduce \/ MrMapperCompletes \/ MrOuterContinuation
        \/ MrInnerContinuation \/ MrReducerCompletes \/ MapReduceFinal

SpecMr == InitMr /\ [][NextMr]_vars

\* ------------------------------------------------------ with_scheduling_group
FuncOutcomes == {"ok", "exc", "pending"}

\* The output gets the result of func's future.
SgSetResult(g, o) ==
    [g EXCEPT !.result = o, !.result_val = g.inner_val, !.sets = @ + 1]

\* futurator::apply(func, args...): a func that throws gives an exceptional
\* future.
SgApply(g, o, v, where) ==
    [g EXCEPT !.inner = o, !.inner_val = IF o = "ok" THEN v ELSE 0,
              !.ran_in = where, !.calls = @ + 1]

\* with_scheduling_group that never defers: func is applied by the caller
\* whether or not the group is active.
with_scheduling_group_never_defers(g, o, v) ==
    LET g1 == SgApply([g EXCEPT !.pc = "returned"], o, v, "caller")
    IN  IF o = "pending" THEN [g1 EXCEPT !.result = "pending",
                                         !.linked = TRUE]
                         ELSE SgSetResult(g1, o)

\* with_scheduling_group
with_scheduling_group(g, o, v) ==
    IF g.active
    THEN LET g1 == SgApply([g EXCEPT !.pc = "returned"], o, v, "caller")
         IN  IF o = "pending" THEN [g1 EXCEPT !.result = "pending",
                                              !.linked = TRUE]
                              ELSE SgSetResult(g1, o)
    ELSE [g EXCEPT !.pc = "returned", !.queued = TRUE, !.task_sg = "sg",
                   !.result = "pending"]

\* The task schedule_in_group queued:
\* futurator::apply(func, std::move(args)).forward_to(std::move(pr))
sg_task(g, o, v) ==
    LET g1 == SgApply([g EXCEPT !.queued = FALSE], o, v, "group")
    IN  IF o = "pending" THEN [g1 EXCEPT !.linked = TRUE]
                         ELSE SgSetResult(g1, o)

\* The pending future func returned is completed; the output, which is that
\* future or has its promise, gets the result.
sg_func_completes(g, o, v) ==
    SgSetResult([g EXCEPT !.inner = o, !.linked = FALSE,
                          !.inner_val = IF o = "ok" THEN v ELSE 0], o)

WithSchedulingGroup ==
    /\ comb = "with_scheduling_group"
    /\ sg.pc = "call"
    /\ \E o \in FuncOutcomes, v \in Values :
          sg' = with_scheduling_group(sg, o, v)
    /\ UNCHANGED NotSg

SgTask ==
    /\ comb = "with_scheduling_group"
    /\ sg.queued
    /\ \E o \in FuncOutcomes, v \in Values : sg' = sg_task(sg, o, v)
    /\ UNCHANGED NotSg

SgFuncCompletes ==
    /\ comb = "with_scheduling_group"
    /\ sg.linked
    /\ \E o \in {"ok", "exc"}, v \in Values :
          sg' = sg_func_completes(sg, o, v)
    /\ UNCHANGED NotSg

InitSg ==
    /\ comb = "with_scheduling_group"
    /\ pfe = PfeIdle /\ wt = WtIdle /\ lp = LpIdle /\ wa = WaIdle
    /\ mr = MrIdle
    /\ \E a \in BOOLEAN : sg = [SgIdle EXCEPT !.pc = "call", !.active = a]

NextSg == WithSchedulingGroup \/ SgTask \/ SgFuncCompletes

SpecSg == InitSg /\ [][NextSg]_vars

Init == InitPfe \/ InitWt \/ InitLoop \/ InitWa \/ InitMr \/ InitSg
Next == NextPfe \/ NextWt \/ NextLoop \/ NextWa \/ NextMr \/ NextSg
Spec == Init /\ [][Next]_vars

\* The steps the reactor and the program are bound to take: a sub-future
\* that is pending is eventually completed by its producer, a task that is
\* queued (a timer callback that is due) eventually runs, and code that is
\* running goes on. The clock and other tasks are under no obligation.
Completions ==
    PfeComplete \/ WtInputCompletes \/ LoopComplete \/ DoForEachLastCompletes
        \/ WaComplete \/ MrMapperCompletes \/ MrReducerCompletes
        \/ SgFuncCompletes
Tasks ==
    PfeRunAndDispose \/ WtTimerCallback \/ WtContinuation
        \/ RepeaterRunAndDispose \/ RepeatUntilValueStateRunAndDispose
        \/ DoUntilStateRunAndDispose \/ DoForEachContinuation
        \/ WhenAllStateComponentRunAndDispose \/ CompleteWhenAllContinuation
        \/ MrOuterContinuation \/ MrInnerContinuation \/ MapReduceFinal
        \/ SgTask
Running ==
    PfeInvoke \/ PfeFinish \/ WithTimeout
        \/ Repeat \/ RepeaterLoop \/ RepeatUntilValue
        \/ RepeatUntilValueStateLoop \/ DoUntil \/ DoUntilStateLoop
        \/ DoForEach \/ WhenAll \/ MapReduce \/ WithSchedulingGroup
FairSpec ==
    Spec /\ WF_vars(Completions) /\ WF_vars(Tasks) /\ WF_vars(Running)

\* ================================================================= claims
PfeReady == pfe.result \in {"ok", "exc"}
PfeFailed == {e \in 1..pfe.n : pfe.fut[e] = "exc"}

\* C1: the future returned by parallel_for_each is ready only when the future
\* of every invocation is ready, also when some invocation has already
\* failed, whatever the order of completion.
C1_ReadyOnlyAfterAll ==
    (comb = "parallel_for_each" /\ PfeReady)
        => \A e \in 1..pfe.n : pfe.fut[e] \in {"ok", "exc"}

\* C1 witness: the state reported a failure, and a sibling completed after a
\* failure had been captured.
C1_Witness ==
    /\ comb = "parallel_for_each"
    /\ pfe.result = "exc" /\ pfe.deleted = 1 /\ pfe.late
    /\ \E e \in 1..pfe.n : pfe.fut[e] = "ok"

\* C2: the returned future fails iff some invocation failed, with the
\* exception of one of the failed invocations; otherwise it is
\* ready-successful.
C2_FailsIffSomeFailed ==
    (comb = "parallel_for_each" /\ PfeReady)
        => /\ (pfe.result = "exc") <=> (PfeFailed # {})
           /\ pfe.result = "exc" => pfe.result_ex \in PfeFailed
           /\ pfe.result = "ok" => pfe.result_ex = NoEx

\* C2 witness: element 1 failed synchronously, a later invocation suspended
\* and succeeded, and the failure of element 1 is what the state reported.
C2_Witness ==
    /\ comb = "parallel_for_each"
    /\ pfe.ex = 1 /\ pfe.deleted = 1
    /\ pfe.result = "exc" /\ pfe.result_ex = 1
    /\ \E e \in 2..pfe.n : pfe.fut[e] = "ok"

\* C3: func is invoked exactly once on every element, in iteration order,
\* all invocations made before parallel_for_each returns, and an invocation
\* never waits for (nor is prevented by) an earlier one.
C3_InvokesAllInOrder ==
    comb = "parallel_for_each"
        => /\ pfe.calls = [k \in 1..(pfe.i - 1) |-> k]
           /\ pfe.pc = "returned" => Len(pfe.calls) = pfe.n
           /\ (pfe.pc = "loop" /\ pfe.i <= pfe.n) => ENABLED PfeInvoke

\* C3 witness: the call returned after three invocations although the first
\* had failed and the second was still pending.
C3_Witness ==
    /\ comb = "parallel_for_each"
    /\ pfe.pc = "returned" /\ pfe.n = 3 /\ pfe.calls = <<1, 2, 3>>
    /\ pfe.fut[1] = "exc" /\ pfe.fut[2] = "pending"

\* C4: with_timeout, timer first: the output stays unavailable until the
\* timer fires, which happens at or after the deadline; it then holds the
\* exception of the factory, and the input's later completion is discarded,
\* the output promise being set once.
C4_TimerFirst ==
    comb = "with_timeout"
        => /\ (wt.pc = "returned" /\ wt.when = "never" /\ ~wt.fired)
                => wt.out = "pending"
           /\ wt.fired
                => /\ wt.now >= wt.deadline
                   /\ wt.out = "exc" /\ wt.out_by = wt.factory
                   /\ wt.sets = 1
           /\ (wt.fired /\ wt.inp # "pending" /\ ~wt.queued) => wt.ignored

\* C4 witness: the timer fired, the input completed afterwards and its
\* result was discarded.
C4_Witness ==
    /\ comb = "with_timeout"
    /\ wt.fired /\ wt.when = "fired" /\ wt.ignored
    /\ wt.out = "exc" /\ wt.out_by = "timed_out_error"

\* C5 as stated: once the input future is ready before the timer has fired,
\* the timeout callback never runs and the output gets the input's result.
C5_InputReadyFirst ==
    (comb = "with_timeout" /\ wt.when = "armed")
        => /\ ~wt.fired
           /\ ~wt.guard => (wt.out = wt.inp /\ wt.out_val = wt.inp_val
                              /\ wt.out_by = "input")

\* C5 amended: when the continuation attached to the input future runs before
\* the timer fires, the timer is cancelled, the output is resolved with the
\* input's result and the timeout callback never runs afterwards.
C5_ContinuationFirst ==
    (comb = "with_timeout" /\ wt.cancelled)
        => /\ ~wt.fired /\ ~wt.armed
           /\ wt.out = wt.inp /\ wt.out_val = wt.inp_val
           /\ wt.out_by = "input" /\ wt.sets = 1

\* C5 witness: the input's value was forwarded and the clock then stands
\* past the deadline.
C5_Witness ==
    /\ comb = "with_timeout"
    /\ wt.cancelled /\ wt.out = "val" /\ wt.out_val = 2
    /\ wt.deadline = 1 /\ wt.now = 2

LoopFailures == {"throw", "exc"}
\* The invocations that completed at once and asked to go on.
SyncContinues ==
    {k \in 1..lp.calls : k \notin lp.susp /\ lp.outs[k] = "no"}

\* C7: repeat resolves successfully exactly when an invocation yields
\* stop_iteration::yes, and that invocation is the last one: if the n-th
\* invocation is the first to yield yes, the action is invoked n times.
C7_RepeatStopsAtYes ==
    comb = "repeat"
        => /\ Len(lp.outs) = lp.calls
           /\ \A k \in 1..(lp.calls - 1) : lp.outs[k] # "yes"
           /\ (lp.result = "ok")
                <=> (lp.pc = "done" /\ lp.calls >= 1
                       /\ lp.outs[lp.calls] = "yes")

\* C7 witness: the third invocation said yes, after a preemption and a
\* suspension.
C7_Witness ==
    /\ comb = "repeat"
    /\ lp.result = "ok" /\ lp.calls = 3
    /\ 1 \in lp.trips /\ 2 \in lp.susp

\* C8: in repeat an invocation that throws, or whose future fails, is the
\* last one, and the returned future fails with its exception.
C8_RepeatFailure ==
    comb = "repeat"
        => /\ \A k \in 1..lp.calls :
                lp.outs[k] \in LoopFailures
                    => /\ k = lp.calls
                       /\ lp.pc \in {"queued", "done"}
                       /\ lp.pc = "done"
                            => (lp.result = "exc" /\ lp.result_val = k)
           /\ lp.result = "exc"
                => (lp.calls >= 1 /\ lp.outs[lp.calls] \in LoopFailures)

\* C8 witness: the third invocation threw, after a suspension and a
\* preemption, and the returned future holds its exception.
C8_Witness ==
    /\ comb = "repeat"
    /\ lp.result = "exc" /\ lp.result_val = 3 /\ lp.outs[3] = "throw"
    /\ 1 \in lp.susp /\ 2 \in lp.trips

PreemptKinds == {"repeat", "repeat_until_value", "do_until", "keep_doing"}

\* C9: need_preempt() is consulted once after every iteration that completes
\* at once without ending the loop; when it is true the heap state is in the
\* task queue (seeded with "no" by repeat), the call has returned, and the
\* next invocation runs in a later task.
C9_Preemption ==
    comb \in PreemptKinds
        => /\ lp.np = Cardinality(SyncContinues)
           /\ \A k \in lp.trips :
                /\ k \in SyncContinues
                /\ k < lp.calls => lp.call_epoch[k + 1] > lp.call_epoch[k]
                /\ (k = lp.calls /\ lp.epoch = lp.call_epoch[k])
                     => /\ lp.pc = "queued" /\ lp.heap /\ lp.returned
                        /\ lp.state = IF comb = "do_until" THEN "none"
                                                             ELSE "no"

\* C9 witness: repeat was preempted after its first iteration and another
\* task ran before the second.
C9_Witness ==
    /\ comb = "repeat"
    /\ 1 \in lp.trips /\ lp.calls >= 2
    /\ lp.call_epoch[2] >= lp.call_epoch[1] + 2

\* C10: in the sequential loops only the latest invocation's future can be
\* pending: an invocation starts when the future of the one before is ready.
C10_OneAtATime ==
    comb \in LoopKinds
        => \A k \in 1..(Len(lp.outs) - 1) : lp.outs[k] # "pending"

\* C10 witness: a loop whose first invocation suspended waits on its third.
C10_Witness ==
    /\ comb = "do_for_each"
    /\ lp.calls = 3 /\ 1 \in lp.susp /\ lp.outs[3] = "pending"

\* The output of each combinator: whether it is ready, what it holds, and
\* how many times its promise (or the ready future returned) was given a
\* result.
Ready(st) == st \in {"ok", "val", "exc"}
OutputSets == <<pfe.sets, wt.sets, lp.sets, wa.sets, mr.sets, sg.sets>>
OutputState == <<pfe.result, wt.out, lp.result, wa.result, mr.result,
                 sg.result>>
OutputValue ==
    <<<<pfe.result, pfe.result_ex>>,
      <<wt.out, wt.out_val, wt.out_by>>,
      <<lp.result, lp.result_val>>,
      <<wa.result, wa.result_ex, wa.out, wa.out_origin, wa.result_val>>,
      <<mr.result, mr.result_ex, mr.result_val>>,
      <<sg.result>> >>
Combinators == 1..6

\* C6: for every combinator the returned future becomes ready exactly once:
\* whatever the interleaving of sub-future completions, timer expiry and
\* task runs, the output is given a result at most once (it is ready exactly
\* when it has been given one), and once ready its result never changes.
C6_ReadyOnce ==
    /\ [](\A c \in Combinators :
            /\ OutputSets[c] <= 1
            /\ Ready(OutputState[c]) <=> OutputSets[c] = 1)
    /\ [][\A c \in Combinators :
            Ready(OutputState[c]) =>
                /\ OutputValue'[c] = OutputValue[c]
                /\ OutputSets'[c] = OutputSets[c]]_vars

\* C6 witness: a with_timeout whose input completed while the timer was
\* armed, whose timer then fired, and whose continuation ran after that:
\* two parties reached for the output and it was given one result.
C6_Witness ==
    /\ comb = "with_timeout"
    /\ wt.when = "armed" /\ wt.fired /\ wt.ignored
    /\ ~wt.queued /\ wt.sets = 1

\* The log of a do_until is a strict alternation of stop checks and
\* invocations that begins with a stop check.
Alternates(log) ==
    \A i \in 1..Len(log) :
        log[i] = IF i % 2 = 1 THEN "stop" ELSE "action"

\* C11: in do_until the stop condition is consulted exactly once right before
\* every invocation of the action and never between an invocation and the
\* next check; a stop check that is not followed by an invocation returned
\* true: the loop is then over, the action is not invoked again and the
\* returned future is resolved successfully, and only then. This holds in
\* the call itself, after a wake-up and after a reschedule.
C11_StopBeforeEachAction ==
    comb = "do_until"
        => /\ Alternates(lp.log)
           /\ Len(lp.log) \in {2 * lp.calls, 2 * lp.calls + 1}
           /\ (Len(lp.log) = 2 * lp.calls + 1)
                <=> (lp.pc = "done" /\ lp.result = "ok")
           /\ lp.result = "ok" => (lp.sets = 1 /\ ~lp.heap)

\* C11 witness: the stop condition returned true on its fourth check, after
\* one invocation suspended and another was cut by preemption.
C11_Witness ==
    /\ comb = "do_until"
    /\ lp.result = "ok" /\ lp.calls = 3 /\ Len(lp.log) = 7
    /\ lp.susp # {} /\ lp.trips # {} /\ lp.susp \cap lp.trips = {}

FailFastKinds == {"do_until", "do_for_each"}

\* C12: in do_until and do_for_each an invocation that throws, or whose
\* future fails (at once, after a suspension, or when preemption is due), is
\* the last one: no later iteration or element is run, do_until's stop
\* condition is not consulted after it, and the returned future, once ready,
\* is failed with that invocation's exception; it fails for no other reason.
C12_FirstFailureEnds ==
    comb \in FailFastKinds
        => /\ \A k \in 1..lp.calls :
                lp.outs[k] \in LoopFailures
                    => /\ k = lp.calls
                       /\ Last(lp.log) = "action"
                       /\ lp.pc \in {"queued", "done"}
                       /\ lp.pc = "queued"
                            => (lp.state = "exc" /\ lp.state_val = k)
                       /\ lp.pc = "done"
                            => (lp.result = "exc" /\ lp.result_val = k)
           /\ lp.result = "exc"
                => (lp.calls >= 1 /\ lp.outs[lp.calls] \in LoopFailures)

\* C12 witness: do_for_each over three elements, whose second invocation
\* returned a failed future while preemption was due, after the first one
\* had suspended: the third element is never visited.
C12_Witness ==
    /\ comb = "do_for_each" /\ lp.n = 3
    /\ lp.result = "exc" /\ lp.result_val = 2 /\ lp.calls = 2
    /\ 1 \in lp.susp /\ 2 \in lp.trips

\* C13: do_for_each invokes the action on the elements of [begin, end) in
\* iteration order, each at most once, whether invocations complete at once,
\* suspend or are cut by preemption; when no invocation failed, the returned
\* future is ready only after the action was invoked on every element and
\* the invocation on the last one is ready, and it is then successful. For
\* an empty range the call returns a ready future, allocates nothing and
\* never invokes the action.
C13_EveryElementOnce ==
    comb = "do_for_each"
        => /\ lp.calls <= lp.n
           /\ lp.seen = [i \in 1..lp.calls |-> i]
           /\ ((\A k \in 1..lp.calls : lp.outs[k] \notin LoopFailures)
                 /\ lp.result \in {"ok", "exc"})
                => /\ lp.result = "ok"
                   /\ lp.calls = lp.n
                   /\ \A k \in 1..lp.n : lp.outs[k] = "no"
           /\ (lp.n = 0 /\ lp.pc # "sync")
                => /\ lp.pc = "done" /\ lp.result = "ok" /\ lp.sets = 1
                   /\ lp.calls = 0 /\ ~lp.heap /\ lp.epoch = 0

\* C13 witness: three elements were visited, the first invocation suspended,
\* the second was cut by preemption, and the returned future is ready.
C13_Witness ==
    /\ comb = "do_for_each" /\ lp.n = 3
    /\ lp.result = "ok" /\ lp.seen = <<1, 2, 3>>
    /\ 1 \in lp.susp /\ 2 \in lp.trips

\* C14: repeat_until_value ends at the first invocation whose optional is
\* engaged and resolves the returned future with the value of that optional
\* (invocation k yields the value k, as a counter would): every invocation
\* before it gave a disengaged optional, none follows it, also across
\* suspensions and preemption reschedules, and the future succeeds for no
\* other reason.
C14_FirstEngagedValue ==
    comb = "repeat_until_value"
        => /\ \A k \in 1..lp.calls :
                lp.outs[k] = "yes"
                    => /\ k = lp.calls
                       /\ \A j \in 1..(k - 1) : lp.outs[j] = "no"
                       /\ lp.pc \in {"queued", "done"}
                       /\ lp.pc = "queued"
                            => (lp.state = "yes" /\ lp.state_val = k)
                       /\ lp.pc = "done"
                            => (lp.result = "ok" /\ lp.result_val = k)
           /\ lp.result = "ok"
                => (lp.calls >= 1 /\ lp.outs[lp.calls] = "yes")

\* C14 witness: the third invocation gave an engaged optional after a
\* preemption reschedule and a suspension; the returned future holds 3.
C14_Witness ==
    /\ comb = "repeat_until_value"
    /\ lp.result = "ok" /\ lp.result_val = 3 /\ lp.calls = 3
    /\ 1 \in lp.trips /\ 3 \in lp.susp

\* C15: repeat_until_value has the exception semantics of repeat: an
\* invocation that throws, in the call itself or in the heap state, or whose
\* future fails, is the last one, and the call returns a future that fails
\* with that exception.
C15_SameAsRepeat ==
    comb = "repeat_until_value"
        => \A k \in 1..lp.calls :
              lp.outs[k] \in LoopFailures
                  => /\ k = lp.calls
                     /\ lp.pc \in {"queued", "done"}
                     /\ lp.pc = "done"
                          => (lp.result = "exc" /\ lp.result_val = k)

\* C16: keep_doing never resolves successfully: while every invocation of
\* the action has succeeded the loop is not over, and the returned future is
\* ready only when an invocation threw or its future failed; that invocation
\* is the last one and the future holds its exception.
C16_KeepDoingEndsOnFailure ==
    comb = "keep_doing"
        => /\ lp.result # "ok"
           /\ (\A k \in 1..lp.calls : lp.outs[k] \notin LoopFailures)
                => (lp.pc # "done" /\ lp.result \in {"none", "pending"})
           /\ \A k \in 1..lp.calls :
                lp.outs[k] \in LoopFailures
                    => /\ k = lp.calls
                       /\ lp.pc \in {"queued", "done"}
                       /\ lp.pc = "done"
                            => (lp.result = "exc" /\ lp.result_val = k)

\* C16 witness: two invocations succeeded, one after a suspension and one
\* followed by a preemption reschedule, and the third returned a failed
\* future, which is what the returned future holds.
C16_Witness ==
    /\ comb = "keep_doing"
    /\ lp.calls = 3 /\ lp.outs = <<"no", "no", "exc">>
    /\ 1 \in lp.susp /\ 2 \in lp.trips
    /\ lp.result = "exc" /\ lp.result_val = 3

WhenAllForms == {"when_all", "when_all_iterator"}
WaInputs == 1..wa.n

\* C17: the future returned by when_all, tuple form and iterator form, is
\* ready only when every sub-future is ready, it is then successful also when
\* sub-futures failed, and each of the futures its result contains, one per
\* sub-future, is ready with a value or an exception.
C17_ReadyAfterAll ==
    (comb \in WhenAllForms /\ wa.result \notin {"none", "pending"})
        => /\ wa.result = "ok"
           /\ \A i \in WaInputs : wa.fut[i] \in {"ok", "exc"}
           /\ Len(wa.out) = wa.n
           /\ \A i \in WaInputs : wa.out[i] \in {"ok", "exc"}

\* C17 witness: three sub-futures, not all ready at the call, the second of
\* which failed; the tuple form's state waited for all and is gone.
C17_Witness ==
    /\ comb = "when_all" /\ wa.n = 3
    /\ wa.result = "ok" /\ wa.deleted = 1
    /\ wa.fut = <<"ok", "exc", "ok">> /\ wa.out = <<"ok", "exc", "ok">>

\* C18: in when_all, tuple form and iterator form, element i of the output
\* holds the result of sub-future i, its value or its exception, whatever
\* the order in which the sub-futures completed and whichever of them were
\* ready at the call.
C18_PositionsPreserved ==
    (comb \in WhenAllForms /\ wa.result = "ok")
        => \A i \in WaInputs :
              /\ wa.out_origin[i] = i
              /\ wa.out[i] = wa.fut[i]

\* C18 witness: the iterator form over three sub-futures with different
\* results, the first ready at the call, the other two completed later,
\* each through the continuation.
C18_Witness ==
    /\ comb = "when_all_iterator" /\ wa.n = 3
    /\ wa.result = "ok" /\ wa.pos = 4
    /\ wa.out = <<"exc", "ok", "exc">> /\ wa.out_origin = <<1, 2, 3>>

\* The sub-futures of a when_all_succeed that carry a value, and the place
\* of such a sub-future among them.
WaValued == {i \in WaInputs : wa.shape[i] # "void"}
WaRank(i) == Cardinality({j \in WaValued : j <= i})

\* C19: when every sub-future succeeded, when_all_succeed resolves to the
\* values of the sub-futures that carry one, in input position order: a
\* future<> contributes nothing, a single-value future its bare value, a
\* multi-value future a nested tuple; in the iterator form value i of the
\* vector comes from sub-future i.
C19_ValuesInOrder ==
    (comb \in SucceedForms /\ wa.result = "ok")
        => /\ \A i \in WaInputs : wa.fut[i] = "ok"
           /\ Len(wa.result_val) = Cardinality(WaValued)
           /\ \A i \in WaValued :
                wa.result_val[WaRank(i)] =
                    IF wa.shape[i] = "single"
                    THEN [bare |-> TRUE, v |-> <<i>>]
                    ELSE [bare |-> FALSE, v |-> <<i, -i>>]
           /\ comb \in IteratorForms
                => \A i \in WaValued : WaRank(i) = i

\* C19 witness: the tuple form over a future<>, a single-value future and a
\* two-value future, not all ready at the call: the output is the bare value
\* of the second followed by the pair of the third.
C19_Witness ==
    /\ comb = "when_all_succeed" /\ wa.n = 3 /\ wa.deleted = 1
    /\ wa.shape = <<"void", "single", "multi">>
    /\ wa.result = "ok"
    /\ wa.result_val = << [bare |-> TRUE, v |-> <<2>>],
                          [bare |-> FALSE, v |-> <<3, -3>>] >>

WaFailedInputs == {i \in WaInputs : wa.fut[i] = "exc"}

\* C20: when_all_succeed, tuple form and iterator form, is ready only after
\* all sub-futures are ready; it fails exactly when some sub-future failed,
\* with the exception of one of the failed sub-futures, and every other
\* failed sub-future was explicitly ignored, so that none is left unobserved.
C20_OneFailureReported ==
    (comb \in SucceedForms /\ wa.result \notin {"none", "pending"})
        => /\ \A i \in WaInputs : wa.fut[i] \in {"ok", "exc"}
           /\ (wa.result = "exc") <=> (WaFailedInputs # {})
           /\ wa.result = "exc"
                => /\ wa.result_ex \in WaFailedInputs
                   /\ wa.observed = {wa.result_ex}
                   /\ WaFailedInputs \ {wa.result_ex} \subseteq wa.ignored
                   /\ wa.result_ex \notin wa.ignored

\* C20 witness: the iterator form over three sub-futures, the last two of
\* which failed, the second waited for through the continuation and the third
\* found ready after it: the exception of the second is reported and the
\* third is ignored.
C20_Witness ==
    /\ comb = "when_all_succeed_iterator" /\ wa.n = 3 /\ wa.pos = 4
    /\ wa.fut = <<"ok", "exc", "exc">> /\ wa.origin[2] = 2
    /\ wa.slot[3] = "linked" /\ wa.slot[2] = "exc"
    /\ wa.result = "exc" /\ wa.result_ex = 2 /\ 3 \in wa.ignored

\* The elements 1..n in iteration order.
IterationOrder(n) == [i \in 1..n |-> i]

\* C21: map_reduce with an initial value and a binary reduce, when every
\* mapper and every reduce succeeds, resolves to the left fold of the mapped
\* values in iteration order, in whatever order the mapper futures become
\* ready (the initial value alone for an empty range). The folded value is
\* represented by the sequence of elements folded into it.
C21_LeftFoldInIterationOrder ==
    (comb = "map_reduce_initial" /\ mr.result = "ok")
        => mr.result_val = IterationOrder(mr.n)

\* C22: in both forms of map_reduce the fold invocations are serialised in
\* iteration order: when the fold (the reducer, or reduce) has been invoked
\* on an element, the fold of every earlier element has completed, that is,
\* the ret of every earlier element is resolved, in whatever order the
\* mapper futures become ready.
C22_FoldsSerialised ==
    comb \in MapReduceKinds =>
        \A k \in 1..Len(mr.folds) :
            \A e \in 1..(mr.folds[k] - 1) : RetAvailable(mr, e)

\* The elements whose fold failed: the mapper's future failed, or the
\* reducer / reduce was invoked and threw or gave a failed future.
MrFailing == {e \in 1..mr.n : mr.m[e] = "exc" \/ mr.red[e] = "exc"}
\* The exception of the fold of element e.
MrFoldEx(e) == IF mr.m[e] = "exc" THEN MapperEx(e) ELSE ReduceEx(e)
\* Once a fold has failed no later element is folded, and a failed result
\* carries the exception of the earliest failing element.
MrFirstFailureEnds ==
    /\ \A e \in MrFailing : \A k \in 1..Len(mr.folds) : mr.folds[k] <= e
    /\ mr.result = "exc" =>
           /\ MrFailing # {}
           /\ mr.result_ex = MrFoldEx(Min(MrFailing))
    /\ (mr.result = "ok") => MrFailing = {}

\* C23: in the stateful-reducer form of map_reduce, once a fold has failed
\* (the mapper's future failed, or the reducer threw or returned a failed
\* future) the reducer is not invoked for any later element, and the
\* returned future fails with the first failure: that of the earliest
\* failing element in iteration order.
C23_ReducerStopsAtFirstFailure ==
    comb = "map_reduce_reducer" => MrFirstFailureEnds
\* Element 1's reducer call failed after element 2's mapper had failed:
\* element 2 was bypassed and the result is element 1's exception.
C23_Witness ==
    /\ comb = "map_reduce_reducer" /\ mr.n = 2
    /\ mr.red[1] = "exc" /\ mr.m[2] = "exc" /\ 2 \in mr.ignored
    /\ mr.result = "exc" /\ mr.result_ex = ReduceEx(1)

\* C24: in the explicit-fold form of map_reduce, once a fold has failed (the
\* mapper's future failed or reduce threw) the later folds are bypassed
\* (reduce is not applied to any later element), and the returned future
\* fails with the first failure: that of the earliest failing element in
\* iteration order.
C24_InitialStopsAtFirstFailure ==
    comb = "map_reduce_initial" => MrFirstFailureEnds

\* C25: both forms of map_reduce invoke the mapper on every element, in
\* iteration order, before returning and without waiting for earlier mapper
\* futures; the returned future is ready only after every mapper future is
\* ready, also when a fold has failed; and every mapper future, a bypassed
\* one included, has had its result taken or been explicitly ignored by
\* then.
C25_MapsAllAndWaitsForAll ==
    (comb \in MapReduceKinds /\ mr.pc = "returned") =>
        /\ mr.mapped = IterationOrder(mr.n)
        /\ Ready(mr.result) =>
               \A e \in 1..mr.n :
                   /\ mr.m[e] # "pending"
                   /\ e \in mr.observed \cup mr.ignored
                   /\ (\A k \in 1..Len(mr.folds) : mr.folds[k] # e)
                          => (e \in mr.ignored \/ mr.m[e] = "exc")
\* The first fold failed while the second mapper future was pending: the
\* result came only after that future was ready, and it was ignored.
C25_Witness ==
    /\ comb = "map_reduce_reducer" /\ mr.n = 2 /\ mr.mapped = <<1, 2>>
    /\ mr.m[1] = "exc" /\ mr.m[2] = "ok" /\ mr.ret_ex[1] = MapperEx(1)
    /\ mr.folds = <<>> /\ 2 \in mr.ignored /\ mr.result = "exc"

\* C26: with_scheduling_group(sg, func): when sg is active, func is invoked
\* by the call itself and the call returns func's futurized result; when it
\* is not, func is not invoked before the call returns, a task tagged with
\* sg is queued, func is invoked exactly once when that task runs, and the
\* future returned earlier resolves with func's result only after that.
C26_InlineOrDeferred ==
    (comb = "with_scheduling_group" /\ sg.pc = "returned") =>
        /\ sg.active =>
               /\ sg.calls = 1 /\ sg.ran_in = "caller" /\ ~sg.queued
               /\ sg.task_sg = "none"
        /\ ~sg.active =>
               /\ sg.task_sg = "sg"
               /\ sg.queued => (sg.calls = 0 /\ sg.result = "pending")
               /\ ~sg.queued => (sg.calls = 1 /\ sg.ran_in = "group")
        /\ sg.calls = 1 =>
               /\ sg.result = sg.inner
               /\ sg.result_val = sg.inner_val
\* The group was not active: the queued task ran func, whose future was
\* pending and later gave a value, which the returned future then carried.
C26_Witness ==
    /\ comb = "with_scheduling_group" /\ ~sg.active /\ ~sg.queued
    /\ sg.ran_in = "group" /\ sg.calls = 1 /\ sg.sets = 1
    /\ sg.result = "ok" /\ sg.result_val = 2 /\ ~sg.linked

\* What happened to the failed sub-futures of each combinator by the time its
\* state is gone.
\* parallel_for_each: get_exception() was called on each.
PfeFailuresTaken ==
    (pfe.pc = "returned" /\ ~pfe.s) =>
        \A e \in 1..pfe.n : pfe.fut[e] = "exc" => e \in pfe.taken
\* with_timeout: the input was forwarded to the output or ignored.
WtFailureTaken ==
    (wt.pc = "returned" /\ ~wt.guard /\ wt.inp = "exc") =>
        (wt.out_by = "input" /\ wt.out = "exc") \/ wt.ignored
\* The loops: the failed future is the last one and is what the loop gave.
LoopFailureForwarded ==
    (lp.pc = "done" /\ ~lp.heap) =>
        \A k \in 1..Len(lp.outs) :
            lp.outs[k] = "exc" => (k = Len(lp.outs) /\ lp.result = "exc")
\* when_all: the failed future is in the output; when_all_succeed: its
\* exception was taken out or it was ignored.
WaFailuresTaken ==
    (Ready(wa.result) /\ ~wa.heap) =>
        \A e \in WaFailedInputs :
            IF comb \in SucceedForms
            THEN e \in wa.observed \cup wa.ignored
            ELSE \E i \in 1..Len(wa.out) :
                     wa.out_origin[i] = e /\ wa.out[i] = "exc"
\* map_reduce: a failed mapper future had get() called or was ignored; a
\* failed reducer future became its link's ret; a failed ret was passed on
\* as the next ret, or ignored, or is the result.
MrFailuresTaken ==
    Ready(mr.result) =>
        \A e \in 1..mr.n :
            /\ mr.m[e] = "exc" => e \in mr.observed \cup mr.ignored
            /\ (mr.red[e] = "exc" /\ mr.m[e] # "threw")
                   => (mr.ret[e] = "exc" /\ mr.ret_ex[e] = ReduceEx(e))
            /\ mr.ret[e] = "exc" =>
                   \/ e \in mr.ret_ignored
                   \/ /\ e = mr.n
                      /\ mr.result = "exc" /\ mr.result_ex = mr.ret_ex[e]
                   \/ /\ e < mr.n
                      /\ mr.ret[e + 1] = "exc"
                      /\ mr.ret_ex[e + 1] = mr.ret_ex[e]
\* with_scheduling_group: func's future is, or was forwarded to, the output.
SgFailureForwarded ==
    (sg.inner = "exc") => (sg.result = "exc")

\* C27: in every combinator, every sub-future handed to it that ends up
\* ready and failed has its exception taken out (captured or forwarded) or
\* is explicitly ignored before the combinator's state is released, in any
\* completion order and with any number of failures.
C27_NoFailureUnobserved ==
    /\ PfeFailuresTaken /\ WtFailureTaken /\ LoopFailureForwarded
    /\ WaFailuresTaken /\ MrFailuresTaken /\ SgFailureForwarded
\* Explicit-fold map_reduce with both mapper futures failed: both had get0()
\* called, and the first link's failed ret was ignored by the second's
\* handler.
C27_Witness ==
    /\ comb = "map_reduce_initial" /\ mr.n = 2
    /\ mr.m[1] = "exc" /\ mr.m[2] = "exc" /\ mr.observed = {1, 2}
    /\ mr.ret[1] = "exc" /\ 1 \in mr.ret_ignored
    /\ mr.result = "exc"

\* The calls in which every sub-future was available when the combinator
\* looked at it.
PfeAllReady == pfe.pc = "returned" /\ pfe.pend = {}
WtAllReady == wt.pc = "returned" /\ wt.when = "before_call"
LoopAllReady ==
    /\ lp.returned /\ lp.susp = {}
    /\ \A k \in 1..Len(lp.outs) : lp.outs[k] # "throw"
WaAllReady ==
    /\ wa.pc = "returned" /\ wa.late = {}
    /\ \A e \in 1..wa.n : wa.fut[e] # "pending"
MrAllReady == mr.pc = "returned" /\ mr.pend = {}
SgAllReady == sg.pc = "returned" /\ sg.active /\ sg.inner # "pending"
\* What the call gave: a ready future, and no heap state.
PfeFastPath ==
    Ready(pfe.result) /\ pfe.sets = 1 /\ ~pfe.s /\ pfe.deleted = 0
WtFastPath ==
    /\ wt.out = wt.inp /\ wt.out_by = "input"
    /\ ~wt.guard /\ ~wt.armed /\ ~wt.cb /\ ~wt.fired /\ ~wt.cancelled
LoopFastPath ==
    lp.pc = "done" /\ Ready(lp.result) /\ ~lp.heap /\ lp.epoch = 0
WaFastPath == Ready(wa.result) /\ ~wa.heap /\ wa.deleted = 0
MrFastPath == Ready(mr.result) /\ mr.q = <<>>
SgFastPath == Ready(sg.result) /\ sg.task_sg = "none"

C29_StateOnlyForPending ==
    comb = "parallel_for_each" =>
        /\ (pfe.s \/ pfe.deleted > 0) => pfe.pend # {}
        /\ (pfe.pc = "returned" /\ pfe.pend = {}) =>
               /\ Ready(pfe.result) /\ pfe.sets = 1
               /\ pfe.calls = IterationOrder(pfe.n)
               /\ pfe.result = "ok"
                      <=> (\A e \in 1..pfe.n : pfe.fut[e] = "ok")
               /\ pfe.result = "exc" => pfe.fut[pfe.result_ex] = "exc"
\* Three invocations, all ready, the second failed: no state, and a failed
\* future on return.
C29_Witness ==
    /\ comb = "parallel_for_each" /\ pfe.pc = "returned" /\ pfe.n = 3
    /\ pfe.pend = {} /\ pfe.fut = <<"ok", "exc", "ok">>
    /\ ~pfe.s /\ pfe.deleted = 0
    /\ pfe.result = "exc" /\ pfe.result_ex = 2

\* The loop has made MaxCalls invocations and is about to make another: its
\* action or stop condition has not signalled termination within the bound.
LoopNotTerminated == lp.calls = MaxCalls /\ lp.pc \in {"sync", "run"}

\* C30: once a combinator has returned a future that is not ready, that
\* future eventually becomes ready, provided every sub-future eventually
\* becomes ready and every queued task eventually runs (FairSpec) and, for
\* the loops, the action or stop condition signals termination; this holds
\* also when need_preempt() is true at every check.
C30_EventuallyReady ==
    (\E c \in Combinators : OutputState[c] = "pending")
        ~> \/ \E c \in Combinators : Ready(OutputState[c])
           \/ LoopNotTerminated
\* repeat with need_preempt() true after every invocation: the state was
\* scheduled twice, then waited for a pending future, and the loop ended.
C30_Witness ==
    /\ comb = "repeat" /\ lp.calls = 3 /\ lp.trips = {1, 2} /\ lp.susp = {3}
    /\ lp.outs[3] = "yes" /\ lp.pc = "done" /\ lp.result = "ok"

Range(s) == {s[k] : k \in 1..Len(s)}
NoDup(s) == \A j, k \in 1..Len(s) : s[j] = s[k] => j = k
IsPrefix(s, t) == Len(s) <= Len(t) /\ SubSeq(t, 1, Len(s)) = s

\* Every future is looked at once: found available, or given one continuation
\* that ran once, and never both.
ObservedOnce(r) ==
    /\ NoDup(r.found \o r.ran)
    /\ NoDup(r.installs)
    /\ IsPrefix(r.ran, r.installs)
    /\ Len(r.installs) <= Len(r.ran) + 1
    /\ Range(r.found) \cap Range(r.installs) = {}
ObservedAll(r) ==
    /\ Range(r.found) \cup Range(r.ran) = 1..r.n
    /\ r.ran = r.installs

\* A when_all whose futures went through a state: every iterator form, and the
\* tuple form with a when_all_state.
WaThroughState == comb \in IteratorForms \/ wa.deleted > 0 \/ wa.heap

\* C31: in parallel_for_each and when_all every sub-future's readiness is
\* observed exactly once before the composite resolves: it is found ready when
\* it is examined, or gets exactly one continuation that runs once; none is
\* examined after its result was collected, and when the composite is ready
\* none was skipped.
C31_EachSubFutureObservedOnce ==
    /\ ObservedOnce(pfe)
    /\ Ready(pfe.result) => ObservedAll(pfe)
    /\ ObservedOnce(wa)
    /\ WaThroughState /\ Ready(wa.result) => ObservedAll(wa)

\* C31 witness: a composite over MaxElems sub-futures is ready after one of
\* them was found ready and another woke its continuation.
C31_Witness ==
    \/ /\ Ready(pfe.result) /\ pfe.n = MaxElems
       /\ pfe.ran # <<>> /\ Len(pfe.found) > 0 /\ pfe.pend # Range(pfe.ran)
    \/ /\ Ready(wa.result) /\ wa.n = MaxElems /\ comb \in TupleForms
       /\ wa.ran # <<>> /\ wa.found # <<>>

\* C32: with_timeout on an input that is already ready, with a value or with
\* an exception, returns that input's result unchanged, arms no timer and
\* attaches no continuation, whatever the deadline, and nothing changes that
\* when the clock passes the deadline.
C32_ReadyInputReturnedUnchanged ==
    (wt.pc = "returned" /\ wt.when = "before_call")
        => /\ wt.out = wt.inp /\ wt.out_val = wt.inp_val
           /\ wt.out_by = "input" /\ wt.sets = 1
           /\ ~wt.guard /\ ~wt.armed /\ ~wt.cb /\ ~wt.queued
           /\ ~wt.fired /\ ~wt.cancelled /\ ~wt.ignored

\* C32 witness: a failed input handed over with a deadline that is not in the
\* future, looked at again after the clock has moved on.
C32_Witness ==
    /\ wt.pc = "returned" /\ wt.when = "before_call"
    /\ wt.inp = "exc" /\ wt.deadline = 0 /\ wt.now > wt.deadline
    /\ wt.out = "exc"

\* The callable arguments of the call, and a set of positions in ascending
\* order.
WaFuncs == {e \in 1..wa.n : wa.kind[e] = "func"}
RECURSIVE Ascending(_)
Ascending(S) ==
    IF S = {} THEN <<>> ELSE <<Min(S)>> \o Ascending(S \ {Min(S)})

\* A callable that threw left a failed sub-future in its position.
ThrowsBecomeFailures ==
    \A e \in wa.threw :
        /\ wa.fut[e] = "exc"
        /\ Ready(wa.result) /\ comb = "when_all" => wa.out[e] = "exc"
        /\ Ready(wa.result) /\ comb = "when_all_succeed" => wa.result = "exc"

\* C33 as stated: the variadic when_all and when_all_succeed invoke each
\* callable argument exactly once, in left-to-right order, before returning;
\* a callable that throws becomes a failed sub-future in its position, and
\* arguments that are futures are not invoked.
C33_InvokedLeftToRight ==
    (comb \in TupleForms /\ wa.pc # "call")
        => /\ wa.invoked = Ascending(WaFuncs)
           /\ ThrowsBecomeFailures

\* C33: the variadic when_all and when_all_succeed invoke each callable
\* argument exactly once before returning, in an order that the build
\* chooses; a callable that throws becomes a failed sub-future in its
\* position, and arguments that are futures are not invoked.
C33_InvokedOnceInSomeOrder ==
    (comb \in TupleForms /\ wa.pc # "call")
        => /\ NoDup(wa.invoked) /\ Range(wa.invoked) = WaFuncs
           /\ ThrowsBecomeFailures

\* C33 witness: a call with a callable that throws and one that does not,
\* whose result is ready.
C33_Witness ==
    /\ comb \in TupleForms /\ Ready(wa.result)
    /\ Len(wa.invoked) = 2 /\ wa.threw # {} /\ wa.threw # WaFuncs

StrictlyDescending(s) == \A j, k \in 1..Len(s) : j < k => s[j] > s[k]

\* C34: the when_all state drives its slots in strictly descending index
\* order and has at most one per-slot continuation installed at any time: a
\* continuation is constructed only after the previous one has run and been
\* destroyed, and a slot that is ready when the driver reaches it gets none.
C34_DescendingOneContinuation ==
    comb \in TupleForms
        => /\ StrictlyDescending(wa.driven)
           /\ Len(wa.installs) = Len(wa.ran) + (IF wa.cont # 0 THEN 1 ELSE 0)
           /\ IsPrefix(wa.ran, wa.installs)
           /\ wa.cont # 0 => wa.cont = Last(wa.installs)
           /\ Range(wa.found) \cap Range(wa.installs) = {}
           /\ \A e \in Range(wa.installs) :
                 e \in wa.late \/ wa.fut[e] = "pending"

\* C34 witness: the state went down all of MaxElems slots, built its
\* continuation twice and found a slot ready in between or around.
C34_Witness ==
    /\ comb \in TupleForms /\ wa.n = MaxElems /\ Ready(wa.result)
    /\ Len(wa.driven) = MaxElems /\ Len(wa.ran) = 2 /\ Len(wa.found) = 1

\* A when_all_state exists or has existed.
WaHadState == wa.heap \/ wa.deleted > 0

\* C35: the when_all state is destroyed exactly once, exactly when its
\* remaining counter has reached zero after the first slot was processed; its
\* destructor is the only place that fulfils the output promise; it is never
\* destroyed while a per-slot continuation is installed on a sub-future, and
\* the counter never underflows.
C35_DestroyedOnceAtZero ==
    (comb \in TupleForms /\ WaHadState)
        => /\ wa.deleted <= 1 /\ wa.nr_remain \in 0..wa.n
           /\ wa.sets = wa.deleted
           /\ wa.deleted = 1 <=> wa.nr_remain = 0
           /\ wa.deleted = 1 <=> ~wa.heap
           /\ wa.deleted = 1
                 => /\ Len(wa.driven) = wa.n /\ Last(wa.driven) = 1
                    /\ wa.cont = 0 /\ ~wa.queued /\ wa.ran = wa.installs
                    /\ Ready(wa.result)
           /\ wa.deleted = 0
                 => /\ wa.result = "pending"
                    /\ wa.cont = wa.nr_remain /\ wa.cont = Last(wa.driven)

\* C35 witness: a state that was destroyed by the continuation of the first
\* slot, after MaxElems slots.
C35_Witness ==
    /\ comb \in TupleForms /\ wa.n = MaxElems /\ wa.deleted = 1
    /\ wa.ran # <<>> /\ Last(wa.ran) = 1

\* C36: parallel_for_each_state takes the futures of its incomplete vector
\* from the back, is installed on at most one of them at any time, and deletes
\* itself exactly once, only when the vector is empty and it is installed on
\* no future; the future it popped after installing itself is accounted for
\* by run_and_dispose, which captures its exception and goes on with the same
\* loop.
C36_StateWalksFromBack ==
    /\ StrictlyDescending(pfe.driven)
    /\ \A j \in 1..Len(pfe.incomplete), k \in 1..Len(pfe.driven) :
          pfe.incomplete[j] < pfe.driven[k]
    /\ Len(pfe.installs) = Len(pfe.ran) + (IF pfe.cb # 0 THEN 1 ELSE 0)
    /\ IsPrefix(pfe.ran, pfe.installs)
    /\ pfe.cb # 0 => /\ pfe.cb = Last(pfe.installs)
                     /\ pfe.cb \notin Range(pfe.incomplete)
    /\ pfe.deleted <= 1
    /\ pfe.deleted = 1
          => /\ pfe.incomplete = <<>> /\ pfe.cb = 0 /\ ~pfe.queued
             /\ pfe.ran = pfe.installs /\ Range(pfe.driven) = pfe.pend
             /\ Ready(pfe.result)
    /\ (pfe.pc = "returned" /\ pfe.pend # {} /\ pfe.deleted = 0)
          => pfe.cb # 0 /\ pfe.result = "pending"
    /\ \A e \in Range(pfe.ran) : pfe.fut[e] = "exc" => e \in pfe.taken

\* C36 witness: the state was woken by a failed future, found another one
\* ready behind it in the vector, and deleted itself.
C36_Witness ==
    /\ pfe.deleted = 1 /\ Len(pfe.driven) = MaxElems
    /\ \E e \in Range(pfe.ran) : pfe.fut[e] = "exc"
    /\ Len(pfe.ran) = 2

\* The failed invocations of the three kinds, each in the order the code
\* comes to them: those whose future was available in the loop, those whose
\* future wait_for_one found available in the vector, and those whose future
\* woke the state.
PfeFailedIn(s) == SelectSeq(s, LAMBDA e : pfe.fut[e] = "exc")
PfeSyncFailures == PfeFailedIn(SelectSeq(pfe.found, LAMBDA e : e \notin pfe.pend))
PfeDrainedFailures == PfeFailedIn(SelectSeq(pfe.found, LAMBDA e : e \in pfe.pend))
PfeDeliveredFailures == PfeFailedIn(pfe.ran)

\* C37 as stated: with several failed invocations parallel_for_each reports
\* the exception observed last, the order of observation being the
\* synchronous failures in iteration order, then the failures found ready
\* while draining the incomplete vector from the back, then the failures
\* delivered by continuations.
C37_LastOfThreePhases ==
    LET order == PfeSyncFailures \o PfeDrainedFailures \o PfeDeliveredFailures
    IN  (Ready(pfe.result) /\ order # <<>>)
            => pfe.result = "exc" /\ pfe.result_ex = Last(order)

\* C37: with several failed invocations parallel_for_each reports the
\* exception observed last, every newly observed failure overwriting the one
\* held; the order of observation is the synchronous failures in iteration
\* order, then the futures of the incomplete vector from the back, each one
\* either found ready while draining or delivered by the continuation that
\* was installed on it.
C37_LastObservedReported ==
    /\ pfe.cb = 0 => pfe.obs = PfeSyncFailures \o PfeFailedIn(pfe.driven)
    /\ Ready(pfe.result)
          => /\ pfe.obs # <<>>
                   => pfe.result = "exc" /\ pfe.result_ex = Last(pfe.obs)
             /\ pfe.obs = <<>> => pfe.result = "ok"

\* C37 witness: a failure delivered by a continuation was overwritten by one
\* found ready further to the front of the vector.
C37_Witness ==
    /\ Ready(pfe.result) /\ Len(pfe.obs) >= 2
    /\ pfe.obs[Len(pfe.obs) - 1] \in Range(pfe.ran)
    /\ Last(pfe.obs) \in Range(pfe.found) \cap pfe.pend

\* C38: when_all_succeed, tuple form and iterator form, with several failed
\* sub-futures reports the exception of the failed sub-future in the lowest
\* input position, in whatever order the sub-futures completed; the iterator
\* form has then taken values only from sub-futures in positions before that
\* first failure, and no value reaches the output.
C38_LowestPositionReported ==
    (comb \in SucceedForms /\ Ready(wa.result) /\ WaFailedInputs # {})
        => /\ wa.result = "exc" /\ wa.result_ex = Min(WaFailedInputs)
           /\ wa.result_val = <<>>
           /\ \A i \in wa.got : i < Min(WaFailedInputs)
           /\ comb \in IteratorForms /\ wa.shape[1] # "void"
                 => wa.got = 1..(Min(WaFailedInputs) - 1)
           /\ comb \in TupleForms => wa.got = {}

\* C38 witness: the iterator form over three futures, of which the second and
\* the third failed after the call, the third being found ready once the
\* continuation of the second had run: the exception of the second is
\* reported and only the value of the first was taken.
C38_Witness ==
    /\ comb = "when_all_succeed_iterator" /\ wa.n = 3
    /\ wa.fut = <<"ok", "exc", "exc">> /\ wa.ran = <<2>> /\ wa.found = <<1, 3>>
    /\ wa.late = {2, 3}
    /\ wa.result = "exc" /\ wa.result_ex = 2 /\ wa.got = {1}

\* What the call gives for the same results of the invocations when no
\* invocation suspends and need_preempt() is false throughout, that is, when
\* the whole loop runs inside the call: the exception of a last invocation
\* that threw or failed (thrown out of repeat_until_value, whose loop has no
\* try block, when the action threw), else the value of the engaged optional
\* (repeat_until_value), else nothing.
LoopExpected ==
    IF lp.calls > 0 /\ lp.outs[lp.calls] = "throw"
            /\ comb = "repeat_until_value"
    THEN <<"thrown", lp.calls>>
    ELSE IF lp.calls > 0 /\ lp.outs[lp.calls] \in {"throw", "exc"}
    THEN <<"exc", lp.calls>>
    ELSE IF comb = "repeat_until_value" THEN <<"ok", lp.calls>>
    ELSE <<"ok", 0>>
\* The invocations and stop checks the results call for: an invocation follows
\* only a result that asks to go on, and do_until checks its stop condition
\* before every invocation and, to end successfully, once more.
LoopExpectedLog ==
    IF comb = "do_until"
    THEN [k \in 1..(2 * lp.calls + (IF lp.result = "ok" THEN 1 ELSE 0)) |->
             IF k % 2 = 1 THEN "stop" ELSE "action"]
    ELSE [k \in 1..lp.calls |-> "action"]
LoopSchedulingBlind ==
    lp.pc = "done"
        => /\ <<lp.result, lp.result_val>> = LoopExpected
           /\ \A k \in 1..(lp.calls - 1) : lp.outs[k] = "no"
           /\ lp.log = LoopExpectedLog

\* C39: for repeat, repeat_until_value and do_until the sequence of action
\* and stop-condition invocations and the final outcome of the returned
\* future are determined by the results of the invocations alone: they are
\* the same for every pattern of need_preempt() results and whichever
\* invocations return futures that are not yet ready.
C39_SameUnderEveryScheduling ==
    comb \in {"repeat", "repeat_until_value", "do_until"}
        => LoopSchedulingBlind

\* The same for repeat and do_until alone.
C39_RepeatAndDoUntil ==
    comb \in {"repeat", "do_until"} => LoopSchedulingBlind

\* The promise and the timer live exactly as long as the continuation is
\* attached; an armed timer, and a fired one whose input is still pending,
\* have them alive.
WtOwnedByContinuation ==
    /\ wt.guard <=> wt.cb
    /\ wt.armed => wt.guard
    /\ wt.fired /\ wt.inp = "pending" => wt.guard
    /\ wt.queued => wt.guard /\ wt.inp # "pending"
\* What a step may do to them.
WtOwnershipStep ==
    \* released only by the continuation, which runs once the input is ready
    /\ wt.guard /\ ~wt'.guard => wt.queued /\ ~wt'.queued /\ ~wt'.cb
    \* the timer callback runs on a live promise and leaves the input and
    \* the continuation on it alone
    /\ ~wt.fired /\ wt'.fired
          => /\ wt.guard /\ wt'.guard
             /\ wt'.inp = wt.inp /\ wt'.cb = wt.cb /\ wt'.queued = wt.queued
    \* after the timer has fired the output is not touched again
    /\ wt.fired
          => /\ wt'.out = wt.out /\ wt'.out_val = wt.out_val
             /\ wt'.out_by = wt.out_by /\ wt'.sets = wt.sets

\* C40: in with_timeout the output promise and the timer are owned by the
\* continuation attached to the input future and are released only when that
\* continuation runs: the timer callback runs only while the promise is
\* alive, and after the timer has fired the promise stays alive until the
\* input completes; the timeout leaves the input and its continuation in
\* place, and the input's late completion finds the state it uses alive.
C40_OwnedByContinuation ==
    []WtOwnedByContinuation /\ [][WtOwnershipStep]_vars

\* C40 witness: the timer fired, the input failed afterwards, and the
\* continuation ran, ignored the input and released the promise; the output
\* still holds the timeout.
C40_Witness ==
    /\ wt.fired /\ wt.when = "fired" /\ wt.inp = "exc" /\ wt.ignored
    /\ ~wt.guard /\ ~wt.cb /\ wt.out = "exc" /\ wt.out_by = wt.factory
    /\ wt.sets = 1
====
